---- MODULE Spec2Model ----
(***************************************************************************)
(* Variant availability reconciliation (popmerch-ecwid).                   *)
(*                                                                         *)
(* The refactored StockManager of src/custom-popmerch.js (lines 964-1342)  *)
(* is modelled as a state machine: page-load signals, in-flight stock      *)
(* requests, the held decision (stockMap), the change-watcher with its     *)
(* debounce timer, and the option controls of the host page.  The pure     *)
(* function buildAvailabilityMap, the DOM application and fetchCombinations*)
(* are also exercised on their own, over enumerated inputs.  The V1        *)
(* (Size-only) script of src/src/url-localization.js, with its             *)
(* sessionStorage cache, has a specification of its own; so have the       *)
(* container discovery and identity resolution of v3.0                     *)
(* (src/custom-popmerch.js 1-520) and the debug build with its step flags  *)
(* (src/unnamed/part_005).  Further specifications, at the end, follow the *)
(* V1 change-watcher under concurrent runs, the fetch interceptor, the     *)
(* bundled StockManager V2 (src/unnamed/part_001), the start of the V1     *)
(* script, the module version of v3.0 on a page with two widgets           *)
(* (src/unnamed/part_000) and the click handler of the URL localization    *)
(* module.                                                                 *)
(***************************************************************************)
EXTENDS Integers, Sequences, FiniteSets, Bags, TLC

VARIABLES
    \* ---- buildAvailabilityMap on its own (SpecBuild)
    combinations,      \* the argument: a list of combination records
    built,             \* whether it has returned, and the map it returned
    \* ---- StockManager and the page it runs in (Spec, SpecApply)
    currentProductId,  \* this.currentProductId (0 is null)
    observer,          \* this.observer: is a MutationObserver connected
    debounceTimer,     \* this.debounceTimer: FALSE is null, TRUE a timer id
    timers,            \* the browser's pending debounce timeouts
    stockMap,          \* this.stockMap
    stockMapFor,       \* productId argument of the checkStock that wrote stockMap
    runs,              \* the bag of checkStock invocations suspended at an await
    container,         \* is .product-details__product-options in the document
    controls,          \* the option inputs inside the container, by slot
    missed,            \* did checkStock's own apply find no container
    burst,             \* bookkeeping of the current burst of observer callbacks
    script,            \* which build of the script the page runs
    lastOp,            \* what ran last: the host, an apply, an apply again
    \* ---- fetchCombinations on its own (SpecFetch)
    call,              \* one call of fetchCombinations: its stage and result
    \* ---- the V1 (Size-only) script and its cache (SpecCache)
    clock,             \* Date.now()
    sessionStore,      \* sessionStorage: how it behaves and the texts it holds
    v1,                \* runForProduct: its stage, product, requests, records
    \* ---- v3.0: discovery of the options container (SpecV3, SpecExtract)
    processedContainers, \* the WeakSet of container elements already queued
    document,          \* the document: the container element in it, and
                       \* where the page shows the product's id
    \* ---- the debug build (SpecDebug)
    flags,             \* the steps localStorage enables (SM_STEP_<step>)
    observers,         \* bundled V2: the connected observers it created
    others             \* v3.0 module: another product widget of the page

buildVars == <<combinations, built>>
pageVars  == <<container, controls>>
mgrVars   == <<currentProductId, observer, debounceTimer, timers, stockMap,
               stockMapFor, runs, missed, burst>>
vars == <<combinations, built, currentProductId, observer, debounceTimer,
          timers, stockMap, stockMapFor, runs, container,
          controls, missed, burst, script, lastOp, call,
          clock, sessionStore, v1, processedContainers, document,
          flags, observers, others>>
cacheVars == <<clock, sessionStore, v1>>
otherVars == <<processedContainers, document, flags, observers, others>>

---------------------------------------------------------------------------
(* Bounds of the exploration *)
MaxLen  == 2     \* longest list of combination records given to build

---------------------------------------------------------------------------
(* Maps (JavaScript Map: has / get / set) as functions on their key set *)

EmptyMap == [k \in {} |-> FALSE]

MapHas(m, k) == k \in DOMAIN m

MapSet(m, k, v) == [x \in (DOMAIN m) \cup {k} |-> IF x = k THEN v ELSE m[x]]

(* A missing or empty option name / value is the empty string: !name *)
Falsy(s) == s = ""

(* const inStock = combo.unlimited === true || combo.quantity > 0 ||
                   combo.inStock === true *)
InStockOf(combo) ==
    combo.unlimited = TRUE \/ combo.quantity > 0 \/ combo.inStock = TRUE

(* The loop body with the value overwritten instead of OR-ed: the last
   record containing a pair decides it *)
AddOptionLastWins(map, opt, inStock) ==
    IF Falsy(opt.name) \/ Falsy(opt.value) THEN map
    ELSE LET m1 == IF MapHas(map, opt.name) THEN map
                   ELSE MapSet(map, opt.name, EmptyMap)
         IN  MapSet(m1, opt.name, MapSet(m1[opt.name], opt.value, inStock))

(* The loop body keeping the value a pair already has: the first record
   containing a pair decides it *)
AddOptionFirstWins(map, opt, inStock) ==
    IF Falsy(opt.name) \/ Falsy(opt.value) THEN map
    ELSE LET m1 == IF MapHas(map, opt.name) THEN map
                   ELSE MapSet(map, opt.name, EmptyMap)
             optionMap == m1[opt.name]
         IN  IF MapHas(optionMap, opt.value) THEN m1
             ELSE MapSet(m1, opt.name, MapSet(optionMap, opt.value, inStock))

(* One iteration of the inner loop: for (const opt of options) {...} *)
AddOption(map, opt, inStock) ==
    IF Falsy(opt.name) \/ Falsy(opt.value) THEN map
    ELSE LET m1 == IF MapHas(map, opt.name) THEN map
                   ELSE MapSet(map, opt.name, EmptyMap)
             optionMap == m1[opt.name]
             currentStatus == IF MapHas(optionMap, opt.value)
                              THEN optionMap[opt.value] ELSE FALSE
         IN  MapSet(m1, opt.name,
                    MapSet(optionMap, opt.value, currentStatus \/ inStock))

RECURSIVE AddOptions(_, _, _)
AddOptions(map, options, inStock) ==
    IF options = <<>> THEN map
    ELSE AddOptions(AddOption(map, Head(options), inStock),
                    Tail(options), inStock)

RECURSIVE BuildFrom(_, _)
BuildFrom(map, combos) ==
    IF combos = <<>> THEN map
    ELSE BuildFrom(AddOptions(map, Head(combos).options,
                              InStockOf(Head(combos))),
                   Tail(combos))

buildAvailabilityMap(combos) == BuildFrom(EmptyMap, combos)

---------------------------------------------------------------------------
(* Enumerated inputs of build *)

Opt(n, v) == [name |-> n, value |-> v]

SeqsUpTo(S, n) == UNION { [1..k -> S] : k \in 0..n }

(* The options arrays of the enumerated records: none, one option, a
   Size/Color combination, a repeated pair, a missing name, a missing value *)
OptionLists ==
    { <<>>,
      <<Opt("Size", "S")>>,
      <<Opt("Size", "M")>>,
      <<Opt("Size", "S"), Opt("Color", "S")>>,
      <<Opt("Size", "M"), Opt("Color", "S")>>,
      <<Opt("Size", "S"), Opt("Size", "S")>>,
      <<Opt("", "S"), Opt("Size", "M")>>,
      <<Opt("Size", ""), Opt("Color", "S")>> }

StockSignals ==
    { [unlimited |-> FALSE, quantity |-> 0,  inStock |-> FALSE],
      [unlimited |-> TRUE,  quantity |-> 0,  inStock |-> FALSE],
      [unlimited |-> FALSE, quantity |-> 1,  inStock |-> FALSE],
      [unlimited |-> FALSE, quantity |-> -1, inStock |-> FALSE],
      [unlimited |-> FALSE, quantity |-> 0,  inStock |-> TRUE] }

Combo(opts, sig) ==
    [options |-> opts, unlimited |-> sig.unlimited,
     quantity |-> sig.quantity, inStock |-> sig.inStock]

ComboRecords ==
    { Combo(o, s) : o \in OptionLists, s \in StockSignals }

---------------------------------------------------------------------------
(* The option controls of the host page.

   Layout lists the inputs the host renders, in document order: the name
   and value attributes of each, and whether one of the wrapper selectors
   (OPTION_WRAPPER, closest()) matches an ancestor of it.  Each input has
   its own wrapper.  A control record holds the input's disabled and
   checked properties and its wrapper's markings: cls/title are the
   StockManager's (popmerch-option--disabled, title), oos/aria are v3.0's
   (ecwid-oos, aria-disabled). *)

Layout ==
    << [name |-> "Size", value |-> "S", wrapped |-> TRUE],
       [name |-> "Size", value |-> "M", wrapped |-> FALSE],
       [name |-> "Size", value |-> "L", wrapped |-> TRUE] >>

Slots == 1..Len(Layout)

CleanWrapper == [cls |-> FALSE, title |-> FALSE, oos |-> FALSE, aria |-> "none"]

Absent ==
    [present |-> FALSE, disabled |-> FALSE, checked |-> FALSE,
     wrapper |-> CleanWrapper]

NoControls == [i \in Slots |-> Absent]

(* no other widget on the page *)
NoWidget == <<>>

(* Does the decision hold an entry for the control in slot i *)
InDecision(map, i) ==
    /\ MapHas(map, Layout[i].name)
    /\ MapHas(map[Layout[i].name], Layout[i].value)

Available(map, i) == map[Layout[i].name][Layout[i].value]

(* findWrapper: the first wrapper selector matching an ancestor, or null *)
findWrapper(i) == Layout[i].wrapped

(* disableInput without the early return, toggling the wrapper's class *)
disableInputToggling(c, i) ==
    IF findWrapper(i)
    THEN [c EXCEPT !.disabled = TRUE,
                   !.wrapper.cls = ~@, !.wrapper.title = TRUE]
    ELSE [c EXCEPT !.disabled = TRUE]

(* disableInput: returns at once when the input is disabled already *)
disableInput(c, i) ==
    IF c.disabled THEN c
    ELSE IF findWrapper(i)
         THEN [c EXCEPT !.disabled = TRUE,
                        !.wrapper.cls = TRUE, !.wrapper.title = TRUE]
         ELSE [c EXCEPT !.disabled = TRUE]

(* enableInput: returns at once when the input is enabled already *)
enableInput(c, i) ==
    IF ~c.disabled THEN c
    ELSE IF findWrapper(i)
         THEN [c EXCEPT !.disabled = FALSE,
                        !.wrapper.cls = FALSE, !.wrapper.title = FALSE]
         ELSE [c EXCEPT !.disabled = FALSE]

(* applyStockToDom taking a value the map does not hold for out of stock *)
applyStockToDomUnknownOut(cont, ctrls, map) ==
    IF ~cont THEN ctrls
    ELSE [i \in Slots |->
            IF ctrls[i].present /\ MapHas(map, Layout[i].name)
            THEN IF InDecision(map, i) /\ Available(map, i)
                 THEN enableInput(ctrls[i], i)
                 ELSE disableInput(ctrls[i], i)
            ELSE ctrls[i]]

(* applyStockToDom: nothing without the container; else every input of the
   container whose name and value the map holds is disabled or enabled *)
applyStockToDom(cont, ctrls, map) ==
    IF ~cont THEN ctrls
    ELSE [i \in Slots |->
            IF ctrls[i].present /\ InDecision(map, i)
            THEN IF ~Available(map, i) THEN disableInput(ctrls[i], i)
                                       ELSE enableInput(ctrls[i], i)
            ELSE ctrls[i]]

---------------------------------------------------------------------------
(* v3.0: applyStockStatus and autoSelectFirstAvailable *)

Min(S) == CHOOSE x \in S : \A y \in S : x <= y

(* inputs.forEach: disabled is assigned, the wrapper's class toggled and
   its aria-disabled set, whatever they were *)
markInput(c, i, inStock) ==
    IF findWrapper(i)
    THEN [c EXCEPT !.disabled = ~inStock,
                   !.wrapper.oos = ~inStock,
                   !.wrapper.aria = IF inStock THEN "false" ELSE "true"]
    ELSE [c EXCEPT !.disabled = ~inStock]

(* firstEnabled.click(): the radio becomes the checked one of its group *)
click(ctrls, k) ==
    [i \in Slots |->
        IF i = k THEN [ctrls[i] EXCEPT !.checked = TRUE]
        ELSE IF ctrls[i].present /\ Layout[i].name = Layout[k].name
             THEN [ctrls[i] EXCEPT !.checked = FALSE]
             ELSE ctrls[i]]

autoSelectLastAvailable(ctrls, inputs) ==
    LET checkedOnes == { i \in inputs : ctrls[i].checked }
        enabledOnes == { i \in inputs : ~ctrls[i].disabled }
        last == CHOOSE x \in enabledOnes : \A y \in enabledOnes : y <= x
    IN  IF checkedOnes = {} \/ ctrls[Min(checkedOnes)].disabled
        THEN IF enabledOnes # {} THEN click(ctrls, last)
                                 ELSE ctrls
        ELSE ctrls

autoSelectFirstAvailable(ctrls, inputs) ==
    LET checkedOnes == { i \in inputs : ctrls[i].checked }
        enabledOnes == { i \in inputs : ~ctrls[i].disabled }
    IN  IF checkedOnes = {} \/ ctrls[Min(checkedOnes)].disabled
        THEN IF enabledOnes # {} THEN click(ctrls, Min(enabledOnes))
                                 ELSE ctrls
        ELSE ctrls

(* One pass of the loop over availabilityMap.entries() *)
applyOption(ctrls, map, optionName) ==
    LET inputs == { i \in Slots :
                      ctrls[i].present /\ Layout[i].name = optionName }
        marked == [i \in Slots |->
                     IF i \in inputs /\ MapHas(map[optionName], Layout[i].value)
                     THEN markInput(ctrls[i], i, map[optionName][Layout[i].value])
                     ELSE ctrls[i]]
    IN  IF inputs = {} THEN ctrls
        ELSE autoSelectFirstAvailable(marked, inputs)

RECURSIVE applyOptions(_, _, _)
applyOptions(ctrls, map, names) ==
    IF names = {} THEN ctrls
    ELSE LET n == CHOOSE x \in names : TRUE
         IN  applyOptions(applyOption(ctrls, map, n), map, names \ {n})

applyStockStatus(ctrls, map) == applyOptions(ctrls, map, DOMAIN map)

---------------------------------------------------------------------------
(* What the host does to the page in one step: it renders or removes the
   options container, or renders one input anew - enabled or disabled,
   checked or not, inside a fresh wrapper or inside the wrapper that was
   there (keeping its markings) - or removes one. *)

Rendered(old, d, ch, keep) ==
    [present |-> TRUE, disabled |-> d, checked |-> ch,
     wrapper |-> IF keep /\ old.present THEN old.wrapper ELSE CleanWrapper]

HostRendersContainer ==
    /\ ~container
    /\ container' = TRUE
    /\ controls' = NoControls

HostRemovesContainer ==
    /\ container
    /\ container' = FALSE
    /\ controls' = NoControls

(* The values the host gives the checked property of an input it renders.
   The StockManager neither reads nor writes that property: a page running
   it is explored with nothing selected. *)
HostChecked == IF script = "v3" THEN BOOLEAN ELSE {FALSE}

(* The inputs the host renders: all of Layout on a page running v3.0,
   whose auto-selection looks at a whole group; the first two elsewhere. *)
HostSlots == IF script = "v3" THEN Slots ELSE { i \in Slots : i <= 2 }

HostRendersInput ==
    /\ container
    /\ \E i \in HostSlots, d \in BOOLEAN, ch \in HostChecked, keep \in BOOLEAN :
          LET c == Rendered(controls[i], d, ch, keep)
              placed == [controls EXCEPT ![i] = c]
          IN  controls' = IF ch THEN click(placed, i) ELSE placed
    /\ UNCHANGED container

HostRemovesInput ==
    /\ container
    /\ \E i \in Slots : /\ controls[i].present
                        /\ controls' = [controls EXCEPT ![i] = Absent]
    /\ UNCHANGED container

HostChange ==
    \/ HostRendersContainer
    \/ HostRemovesContainer
    \/ HostRendersInput
    \/ HostRemovesInput

---------------------------------------------------------------------------
(* Values of the variables a specification does not use *)

NotBuilt ==
    [done |-> FALSE, map |-> EmptyMap, sizeDone |-> FALSE, sizeMap |-> EmptyMap]

NoBurst == [callbacks |-> 0, applies |-> 0, cancelled |-> FALSE]

NoCall == [stage |-> "idle"]

NoRun ==
    [stage |-> "idle", storeId |-> 0, productId |-> 0, requests |-> 0,
     source |-> "none", items |-> <<>>, applied |-> FALSE]

NoStore == [mode |-> "ok", texts |-> EmptyMap]

IdleCache == clock = 0 /\ sessionStore = NoStore /\ v1 = NoRun

NoIds ==
    [browserClass |-> 0, storeClass |-> 0, dataAttr |-> 0, inlineScript |-> 0,
     ecConfig |-> 0]

NoPage ==
    [instance |-> 0, created |-> 0, ids |-> NoIds, product |-> 0]

IdleOther ==
    /\ processedContainers = {} /\ document = NoPage /\ flags = {}
    /\ observers = {} /\ others = NoWidget

IdleBuild == combinations = <<>> /\ built = NotBuilt

IdlePage == container = FALSE /\ controls = NoControls

IdleManager ==
    /\ currentProductId = 0
    /\ observer = FALSE
    /\ debounceTimer = FALSE
    /\ timers = <<>>
    /\ stockMap = EmptyMap
    /\ stockMapFor = 0
    /\ runs = EmptyBag
    /\ missed = FALSE
    /\ burst = NoBurst

---------------------------------------------------------------------------
(* The V1 script's buildAvailabilityMap: the Size value of each combination,
   the last record with a value deciding it *)

OPTION_NAME == "Size"

(* comb?.options?.find((o) => o?.name === OPTION_NAME) *)
sizeOption(comb) ==
    LET ks == { k \in 1..Len(comb.options) :
                  comb.options[k].name = OPTION_NAME }
    IN  IF ks = {} THEN Opt("", "") ELSE comb.options[Min(ks)]

RECURSIVE buildSizeMap(_, _)
buildSizeMap(map, combs) ==
    IF combs = <<>> THEN map
    ELSE LET comb == Head(combs)
             opt == sizeOption(comb)
             inStock == comb.unlimited = TRUE \/ comb.inStock = TRUE
                           \/ comb.quantity > 0
         IN  buildSizeMap(IF Falsy(opt.value) THEN map
                          ELSE MapSet(map, opt.value, inStock),
                          Tail(combs))

---------------------------------------------------------------------------
(* SpecBuild: buildAvailabilityMap applied to every list of at most MaxLen
   enumerated records *)

InitBuild ==
    /\ combinations \in SeqsUpTo(ComboRecords, MaxLen)
    /\ built = NotBuilt
    /\ IdleManager /\ IdlePage
    /\ script = "v2" /\ lastOp = "init" /\ call = NoCall /\ IdleCache /\ IdleOther

Build ==
    /\ ~built.done
    /\ built' = [built EXCEPT !.done = TRUE,
                              !.map = buildAvailabilityMap(combinations)]
    /\ UNCHANGED <<combinations, mgrVars, pageVars, script, lastOp, call, cacheVars, otherVars>>

(* the V1 script's buildAvailabilityMap(combinations) returns *)
BuildV1 ==
    /\ ~built.sizeDone
    /\ built' = [built EXCEPT !.sizeDone = TRUE,
                              !.sizeMap = buildSizeMap(EmptyMap, combinations)]
    /\ UNCHANGED <<combinations, mgrVars, pageVars, script, lastOp, call, cacheVars, otherVars>>

NextBuild == Build \/ BuildV1

SpecBuild == InitBuild /\ [][NextBuild]_vars

(* The stock signal of a record, as the specification words it *)
PositiveSignal(rec) == rec.unlimited \/ rec.quantity > 0 \/ rec.inStock

HasPair(rec, N, V) ==
    \E k \in 1..Len(rec.options) :
        rec.options[k].name = N /\ rec.options[k].value = V

RecordsWith(N, V) ==
    { j \in 1..Len(combinations) : HasPair(combinations[j], N, V) }

OptionNames  == { "", "Size", "Color" }
OptionValues == { "", "S", "M" }

HasEntry(map, N, V) == MapHas(map, N) /\ MapHas(map[N], V)

(* C3: the decision built from a list of records holds, for every pair of a
   non-empty option name and value occurring in some record, TRUE exactly when
   a record containing the pair has unlimited, quantity > 0 or inStock; it
   holds no entry for a pair with a missing name or value, nor for a pair
   occurring in no record. *)
C3_BuildIsOrOverRecords ==
    built.done =>
        /\ DOMAIN built.map \subseteq OptionNames
        /\ \A N \in DOMAIN built.map : DOMAIN built.map[N] \subseteq OptionValues
        /\ \A N \in OptionNames, V \in OptionValues :
              IF N # "" /\ V # "" /\ RecordsWith(N, V) # {}
              THEN /\ HasEntry(built.map, N, V)
                   /\ built.map[N][V] =
                        (\E j \in RecordsWith(N, V) :
                            PositiveSignal(combinations[j]))
              ELSE ~HasEntry(built.map, N, V)

(* An in-stock record followed by an out-of-stock record sharing a pair *)
C3_Witness ==
    /\ built.done
    /\ \E N \in OptionNames \ {""}, V \in OptionValues \ {""} :
          /\ \E j1, j2 \in RecordsWith(N, V) :
                /\ j1 < j2
                /\ PositiveSignal(combinations[j1])
                /\ ~PositiveSignal(combinations[j2])
          /\ HasEntry(built.map, N, V)
          /\ built.map[N][V] = TRUE

---------------------------------------------------------------------------
(* SpecApply: the DOM application on its own.  The page runs one build of
   the script, a decision is held, the host renders and re-renders the
   controls at will and the script applies the decision, once or again. *)

Sig(u, q, s) == [unlimited |-> u, quantity |-> q, inStock |-> s]

OutOfStock == Sig(FALSE, 0, FALSE)

(* Record lists a product's stock endpoint may answer with *)
SizeSOutMIn ==
    << Combo(<<Opt("Size", "S")>>, OutOfStock),
       Combo(<<Opt("Size", "M")>>, Sig(FALSE, 1, FALSE)) >>

SizeSInOnly == << Combo(<<Opt("Size", "S")>>, Sig(TRUE, 0, FALSE)) >>

SizeMOutOnly == << Combo(<<Opt("Size", "M")>>, OutOfStock) >>

SizeBothOut ==
    << Combo(<<Opt("Size", "S")>>, OutOfStock),
       Combo(<<Opt("Size", "M")>>, OutOfStock) >>

ColorOnly == << Combo(<<Opt("Color", "S")>>, OutOfStock) >>

(* a record whose only option has no name: no pair, an empty decision *)
NamelessOnly == << Combo(<<Opt("", "S")>>, Sig(TRUE, 0, FALSE)) >>

SizeMOutLIn ==
    << Combo(<<Opt("Size", "M")>>, OutOfStock),
       Combo(<<Opt("Size", "L")>>, Sig(FALSE, 1, FALSE)) >>

DecisionInputs ==
    { <<>>, SizeSOutMIn, SizeSInOnly, SizeMOutOnly, SizeBothOut, ColorOnly,
      SizeMOutLIn }

Decisions == { buildAvailabilityMap(l) : l \in DecisionInputs }

InitApply ==
    /\ stockMap \in Decisions
    /\ script \in {"v2", "v3"}
    /\ lastOp = "init"
    /\ IdlePage /\ IdleBuild /\ call = NoCall /\ IdleCache /\ IdleOther
    /\ currentProductId = 0 /\ observer = FALSE /\ debounceTimer = FALSE
    /\ timers = <<>> /\ stockMapFor = 0 /\ runs = EmptyBag
    /\ missed = FALSE /\ burst = NoBurst

applyFrame ==
    UNCHANGED <<buildVars, mgrVars, container, script, call, cacheVars, otherVars>>

Applied == IF lastOp \in {"apply", "reapply"} THEN "reapply" ELSE "apply"

HostMutation ==
    /\ HostChange
    /\ lastOp' = "host"
    /\ UNCHANGED <<buildVars, mgrVars, script, call, cacheVars, otherVars>>

(* StockManager.applyStockToDom() with the held map *)
ApplyStockToDom ==
    /\ script = "v2"
    /\ controls' = applyStockToDom(container, controls, stockMap)
    /\ lastOp' = Applied
    /\ applyFrame

(* v3.0 applyStockStatus(availabilityMap) *)
ApplyStockStatus ==
    /\ script = "v3"
    /\ controls' = applyStockStatus(controls, stockMap)
    /\ lastOp' = Applied
    /\ applyFrame

NextApply == HostMutation \/ ApplyStockToDom \/ ApplyStockStatus

SpecApply == InitApply /\ [][NextApply]_vars

JustApplied == lastOp \in {"apply", "reapply"}

(* C4: after applyStockToDom with the container present, every control of
   the container that the decision has an entry for has disabled = NOT
   decision, and its wrapper carries the disabled class exactly when the
   decision is false - whatever the host had rendered. *)
C4_ApplySetsControlAndWrapper ==
    (script = "v2" /\ JustApplied /\ container) =>
        \A i \in Slots :
            (controls[i].present /\ InDecision(stockMap, i)) =>
                /\ controls[i].disabled = ~Available(stockMap, i)
                /\ findWrapper(i) =>
                      controls[i].wrapper.cls = ~Available(stockMap, i)

(* C5: apply is idempotent: applying the held decision again right after
   applying it, with no host mutation in between, changes no control's
   disabled state, no selection and no wrapper marking. *)
C5_ApplyIdempotent ==
    [][ (JustApplied /\ (ApplyStockToDom \/ ApplyStockStatus))
            => controls' = controls ]_vars

(* The decision was applied twice in a row and it disabled a control *)
C5_Witness ==
    /\ lastOp = "reapply"
    /\ \E i \in Slots :
          /\ controls[i].present /\ InDecision(stockMap, i)
          /\ ~Available(stockMap, i)
          /\ controls[i].disabled

(* C6: apply leaves every control whose value has no entry in the decision
   for its option name as it was: the same disabled state and the same
   wrapper class and attributes. *)
C6_ApplyLeavesUnknownAlone ==
    [][ (ApplyStockToDom \/ ApplyStockStatus) =>
            \A i \in Slots :
                ~InDecision(stockMap, i) =>
                    /\ controls'[i].present = controls[i].present
                    /\ controls'[i].disabled = controls[i].disabled
                    /\ controls'[i].wrapper = controls[i].wrapper ]_vars

(* An apply disabled one control and met another the decision does not
   know, which the host had rendered disabled inside a marked wrapper *)
C6_Witness ==
    /\ JustApplied
    /\ \E i, j \in Slots :
          /\ controls[i].present /\ ~InDecision(stockMap, i)
          /\ controls[i].disabled
          /\ controls[j].present /\ InDecision(stockMap, j)
          /\ ~Available(stockMap, j) /\ controls[j].disabled

---------------------------------------------------------------------------
(* fetchCombinations: the request, the response and what the call returns.

   The request ends in one of FetchOutcomes: fetch() rejects (network
   error, or the abort the timeout triggers), or a response arrives with a
   client-error, server-error or OK status.  The body of an OK response
   then either fails to parse or parses to one of the shapes below. *)

FetchOutcomes == { "networkError", "abort", "status4xx", "status5xx", "ok" }

Body(shape, items) == [shape |-> shape, items |-> items]

(* Bodies without records: unparsable text, JSON null, an object without
   items, an object whose items is a non-zero number or a non-empty string *)
OddBodies ==
    { Body("unparsable", <<>>), Body("null", <<>>), Body("noItems", <<>>),
      Body("itemsNumber", <<>>), Body("itemsString", <<>>) }

(* A bare array of records, or an object exposing them as items *)
RecordBodies(lists) ==
    { Body(s, l) : s \in {"array", "items"}, l \in lists }

(* The outcome of a block of code: a value, or a thrown exception *)
Value(v) == [threw |-> FALSE, value |-> v]
Thrown   == [threw |-> TRUE, value |-> [type |-> "error"]]

Array(l) == [type |-> "array", items |-> l]

(* The status test written as `response.status >= 500`: a client-error
   response is read like an OK one *)
awaitFetchServerErrorsOnly(outcome) ==
    IF outcome \in {"networkError", "abort"} THEN Thrown
    ELSE IF outcome = "status5xx" THEN Thrown
    ELSE Value([type |-> "response"])

(* const response = await fetch(url, ...);
   if (!response.ok) throw new Error(...) *)
awaitFetch(outcome) ==
    IF outcome \in {"networkError", "abort"} THEN Thrown
    ELSE IF outcome # "ok" THEN Thrown
    ELSE Value([type |-> "response"])

(* const data = await response.json();
   return Array.isArray(data) ? data : data.items || [] *)
awaitJson(body) ==
    CASE body.shape = "unparsable"  -> Thrown
      [] body.shape = "array"       -> Value(Array(body.items))
      [] body.shape = "null"        -> Thrown
      [] body.shape = "items"       -> Value(Array(body.items))
      [] body.shape = "noItems"     -> Value(Array(<<>>))
      [] body.shape = "itemsNumber" -> Value([type |-> "number"])
      [] body.shape = "itemsString" -> Value([type |-> "string"])

(* try { ... } catch (error) { ...; return [] }: what the promise of
   fetchCombinations settles to *)
Resolved(v) == [kind |-> "resolved", value |-> v]
Rejected    == [kind |-> "rejected", value |-> [type |-> "error"]]

(* A catch block that logs and throws the error on *)
catchAndRethrow(r) == IF r.threw THEN Rejected ELSE Resolved(r.value)

catchAll(r) == IF r.threw THEN Resolved(Array(<<>>)) ELSE Resolved(r.value)

---------------------------------------------------------------------------
(* SpecFetch: one call of fetchCombinations under every outcome, with the
   time its request takes.

   A call is a record: the stage it is at, the requests it has issued so
   far, whether its abort timeout is armed, and the time since it started.
   Time passes in steps of FetchTickMs, up to MaxWaitMs. *)

FetchTickMs == 2500    \* the step in which time passes during a call
MaxWaitMs   == 10000   \* how long a call is followed

API_TIMEOUT_MS == 5000

Products == {1, 2}

CallBodies ==
    OddBodies \cup RecordBodies(SeqsUpTo(ComboRecords, 1) \cup DecisionInputs)

InitFetch ==
    /\ call \in { [stage |-> "called", productId |-> p, requests |-> 0,
                   timeout |-> FALSE, elapsed |-> 0] : p \in Products }
    /\ IdleBuild /\ IdleManager /\ IdlePage /\ IdleCache /\ IdleOther
    /\ script = "v2" /\ lastOp = "init"

fetchFrame ==
    UNCHANGED <<buildVars, mgrVars, pageVars, script, lastOp, cacheVars, otherVars>>

(* the abort timeout is armed and its delay has passed *)
TimeoutDue == call.timeout /\ call.elapsed >= API_TIMEOUT_MS

(* return ... / catch { clearTimeout(id); return [] }: the call is over *)
Settled(c, outcome, body, result) ==
    [stage |-> "settled", productId |-> c.productId, requests |-> c.requests,
     timeout |-> FALSE, elapsed |-> c.elapsed,
     outcome |-> outcome, body |-> body, result |-> result]

(* const id = setTimeout(() => controller.abort(), CONFIG.API_TIMEOUT_MS);
   ... fetch(url, {..., signal: controller.signal}): the one place of
   fetchCombinations that issues a request *)
CallStarts ==
    /\ call.stage = "called"
    /\ call' = [call EXCEPT !.stage = "fetch", !.timeout = TRUE,
                            !.requests = @ + 1]
    /\ fetchFrame

(* time passes while the call is suspended, up to the moment its timeout
   is due *)
CallTick ==
    /\ call.stage \in {"fetch", "json"}
    /\ ~TimeoutDue
    /\ call.elapsed < MaxWaitMs
    /\ LET later == call.elapsed + FetchTickMs
           next  == IF call.timeout /\ later > API_TIMEOUT_MS
                    THEN API_TIMEOUT_MS ELSE later
       IN  call' = [call EXCEPT !.elapsed = next]
    /\ fetchFrame

(* the request ends: the call goes on to read the body (clearTimeout(id)
   ran first), or returns.  The abort is the outcome of the timeout, which
   runs when due. *)
CallFetchEnds ==
    /\ call.stage = "fetch"
    /\ \E outcome \in FetchOutcomes :
          /\ (outcome = "abort") <=> TimeoutDue
          /\ LET r == awaitFetch(outcome)
             IN  call' = IF r.threw
                         THEN Settled(call, outcome, Body("none", <<>>),
                                      catchAll(r))
                         ELSE [stage |-> "json", productId |-> call.productId,
                               requests |-> call.requests, timeout |-> FALSE,
                               elapsed |-> call.elapsed, outcome |-> outcome]
    /\ fetchFrame

(* response.json() settles *)
CallBodyEnds ==
    /\ call.stage = "json"
    /\ \E body \in CallBodies :
          call' = Settled(call, call.outcome, body, catchAll(awaitJson(body)))
    /\ fetchFrame

NextFetch == CallStarts \/ CallTick \/ CallFetchEnds \/ CallBodyEnds

SpecFetch == InitFetch /\ [][NextFetch]_vars

(* C10: fetchCombinations never rejects: after a network error, an abort,
   a non-OK status or an unparsable body its promise resolves to an empty
   list. *)
C10_FetchNeverRejects ==
    call.stage = "settled" =>
        /\ call.result.kind = "resolved"
        /\ (call.outcome # "ok" \/ call.body.shape = "unparsable") =>
              call.result.value = Array(<<>>)

(* A call that met a failing request has settled *)
C10_Witness ==
    /\ call.stage = "settled"
    /\ call.outcome \in {"networkError", "abort", "status4xx", "status5xx"}
    /\ call.result = Resolved(Array(<<>>))

(* The failures a retrying client would try again after *)
Retryable == { "networkError", "abort", "status5xx" }

(* C11: a timeout, network error or 5xx response is retried: the call
   yields its empty list only after more than one request - whatever the
   configured attempt count and base delay of the backoff are. *)
C11_RetriedBeforeGivingUp ==
    (call.stage = "settled" /\ call.outcome \in Retryable) =>
        call.requests > 1

(* C12: a client-error (4xx) response ends the call at once: exactly one
   request was sent for it and the result is the empty list. *)
C12_ClientErrorNotRetried ==
    (call.stage = "settled" /\ call.outcome = "status4xx") =>
        /\ call.requests = 1
        /\ call.result = Resolved(Array(<<>>))

(* A call answered with a client error has returned *)
C12_Witness ==
    /\ call.stage = "settled"
    /\ call.outcome = "status4xx"
    /\ call.requests = 1
    /\ call.result.kind = "resolved"

(* C13: a call whose request has not fully completed (response received
   and body read) within API_TIMEOUT_MS is aborted: no call is still
   suspended after that time. *)
C13_NoCallPendingPastTimeout ==
    call.stage \in {"fetch", "json"} => call.elapsed <= API_TIMEOUT_MS

---------------------------------------------------------------------------
(* Spec: the StockManager on a page.

   Events: the host's page-load signal (Ecwid.OnPageLoaded), the end of a
   stock request, the arrival of its body, the host's mutations of the
   page (observed by the change-watcher when one is connected), the
   passing of time and the debounce timeout.  Each event runs its handler
   to completion. *)

MaxRuns == 2     \* most checkStock invocations suspended at a time
TickMs  == 25    \* time passes in steps of TickMs milliseconds

DEBOUNCE_MS == 50

DEBUG_DEBOUNCE_MS == 100     \* CONFIG.DEBOUNCE_MS of the debug build

(* page.productId of a page object that carries none (undefined); 0 stands
   for the null that cleanup() assigns to this.currentProductId *)
Undefined == -1

(* page objects of the page-load signal *)
Pages ==
    { [type |-> "PRODUCT", productId |-> p] : p \in Products \cup {Undefined} }
        \cup { [type |-> "CATEGORY", productId |-> Undefined] }

(* what the stock endpoint may answer for a product *)
ResponseBodies(p) ==
    OddBodies \cup RecordBodies({<<>>}) \cup
        (CASE p = 1 -> RecordBodies({SizeSOutMIn})
           [] p = 2 -> RecordBodies({SizeSInOnly, NamelessOnly})
           [] OTHER -> {})

(* ---- timeouts.  A pending timeout is [ref, left]: ref says that its id is
   the one this.debounceTimer holds, left is the time until it is due. *)

IsOrphan(t) == ~t.ref

Unref(t) == [t EXCEPT !.ref = FALSE]

(* if (this.debounceTimer) clearTimeout(this.debounceTimer) *)
clearDebounce(ts, held) == IF held THEN SelectSeq(ts, IsOrphan) ELSE ts

(* CONFIG.DEBOUNCE_MS of the build the page runs *)
DebounceMs == IF script = "debug" THEN DEBUG_DEBOUNCE_MS ELSE DEBOUNCE_MS

(* this.debounceTimer = setTimeout(..., CONFIG.DEBOUNCE_MS) *)
setDebounce(ts) ==
    Append([k \in 1..Len(ts) |-> Unref(ts[k])],
           [ref |-> TRUE, left |-> DebounceMs])

Pending == \E k \in 1..Len(timers) : timers[k].left > 0

Due == \E k \in 1..Len(timers) : timers[k].left = 0

RemoveAt(s, k) == SubSeq(s, 1, k - 1) \o SubSeq(s, k + 1, Len(s))

(* ---- a suspended checkStock(productId): at `await fetch` or at
   `await response.json()` *)

Run(p, stage) == [productId |-> p, stage |-> stage]

One(run) == SetToBag({run})

(* the requests in flight for product p *)
InFlight(p) ==
    CopiesIn(Run(p, "fetch"), runs) + CopiesIn(Run(p, "json"), runs)

(* ---- the manager's state as one record, for the handlers below *)

Manager ==
    [currentProductId |-> currentProductId, observer |-> observer,
     debounceTimer |-> debounceTimer, timers |-> timers,
     stockMap |-> stockMap, stockMapFor |-> stockMapFor,
     controls |-> controls, missed |-> missed]

Becomes(m) ==
    /\ currentProductId' = m.currentProductId
    /\ observer' = m.observer
    /\ debounceTimer' = m.debounceTimer
    /\ timers' = m.timers
    /\ stockMap' = m.stockMap
    /\ stockMapFor' = m.stockMapFor
    /\ controls' = m.controls
    /\ missed' = m.missed

(* A cleanup whose disconnectObserver leaves the debounce timeout alone *)
cleanupKeepsTimer(m) ==
    [m EXCEPT !.observer = FALSE,
              !.debounceTimer = FALSE,
              !.currentProductId = 0,
              !.stockMap = EmptyMap,
              !.stockMapFor = 0,
              !.missed = FALSE]

(* cleanup(): disconnectObserver(), currentProductId = null,
   stockMap.clear() *)
cleanup(m) ==
    [m EXCEPT !.observer = FALSE,
              !.timers = clearDebounce(m.timers, m.debounceTimer),
              !.debounceTimer = FALSE,
              !.currentProductId = 0,
              !.stockMap = EmptyMap,
              !.stockMapFor = 0,
              !.missed = FALSE]

(* setupObserver(): a new observer unless one exists.  It observes the
   product page element, or document.body when there is none; both are
   ancestors of the options container, whose childList mutations are the
   ones HostChange makes, so the observer is a flag: connected or not. *)
setupObserver(m) == IF m.observer THEN m ELSE [m EXCEPT !.observer = TRUE]

(* checkStock() that arms the watcher only when its apply found the
   options container *)
checkStockResumeWatchIfFound(m, productId, result) ==
    IF result.kind = "rejected" THEN m
    ELSE LET v == result.value IN
      CASE v.type = "number" -> m
        [] v.type = "string" ->
              [m EXCEPT !.stockMap = EmptyMap, !.stockMapFor = productId]
        [] v.type = "array" ->
              IF Len(v.items) = 0 THEN m
              ELSE LET map == buildAvailabilityMap(v.items)
                       held == [m EXCEPT !.stockMap = map,
                                         !.stockMapFor = productId]
                   IN  IF map = EmptyMap THEN held
                       ELSE IF ~container
                       THEN [held EXCEPT !.missed = TRUE]
                       ELSE setupObserver(
                              [held EXCEPT !.controls =
                                 applyStockToDom(container, m.controls, map)])

(* checkStock() that takes an empty decision for "everything sold out" *)
checkStockResumeEmptyIsSoldOut(m, productId, result) ==
    IF result.kind = "rejected" THEN m
    ELSE LET v == result.value IN
      CASE v.type = "number" -> m
        [] v.type = "string" ->
              [m EXCEPT !.stockMap = EmptyMap, !.stockMapFor = productId]
        [] v.type = "array" ->
              IF Len(v.items) = 0 THEN m
              ELSE LET map == buildAvailabilityMap(v.items)
                       held == [m EXCEPT !.stockMap = map,
                                         !.stockMapFor = productId]
                   IN  IF map = EmptyMap
                       THEN [held EXCEPT !.controls =
                               [i \in Slots |->
                                  IF m.controls[i].present
                                  THEN disableInput(m.controls[i], i)
                                  ELSE m.controls[i]]]
                       ELSE setupObserver(
                              [held EXCEPT
                                 !.controls =
                                    applyStockToDom(container, m.controls, map),
                                 !.missed = IF container THEN @ ELSE TRUE])

(* checkStock() that fails closed: with no records it disables every
   rendered control *)
checkStockResumeFailClosed(m, productId, result) ==
    IF result.kind = "rejected" THEN m
    ELSE LET v == result.value IN
      CASE v.type = "number" -> m
        [] v.type = "string" ->
              [m EXCEPT !.stockMap = EmptyMap, !.stockMapFor = productId]
        [] v.type = "array" ->
              IF Len(v.items) = 0
              THEN [m EXCEPT !.controls =
                       [i \in Slots |-> IF m.controls[i].present
                                        THEN disableInput(m.controls[i], i)
                                        ELSE m.controls[i]]]
              ELSE LET map == buildAvailabilityMap(v.items)
                       held == [m EXCEPT !.stockMap = map,
                                         !.stockMapFor = productId]
                   IN  IF map = EmptyMap THEN held
                       ELSE setupObserver(
                              [held EXCEPT
                                 !.controls =
                                    applyStockToDom(container, m.controls, map),
                                 !.missed = IF container THEN @ ELSE TRUE])

(* checkStock() after `await this.fetchCombinations(productId)`, given what
   the promise settled to.  A rejection and an exception of the body both
   end in the catch block. *)
checkStockResume(m, productId, result) ==
    IF result.kind = "rejected" THEN m
    ELSE LET v == result.value IN
      CASE v.type = "number" -> m
        [] v.type = "string" ->
              [m EXCEPT !.stockMap = EmptyMap, !.stockMapFor = productId]
        [] v.type = "array" ->
              IF Len(v.items) = 0 THEN m
              ELSE LET map == buildAvailabilityMap(v.items)
                       held == [m EXCEPT !.stockMap = map,
                                         !.stockMapFor = productId]
                   IN  IF map = EmptyMap THEN held
                       ELSE setupObserver(
                              [held EXCEPT
                                 !.controls =
                                    applyStockToDom(container, m.controls, map),
                                 !.missed = IF container THEN @ ELSE TRUE])

(* The callback without the clearTimeout of the timeout set before *)
observerCallbackNoClear(m) ==
    [m EXCEPT !.timers = setDebounce(m.timers), !.debounceTimer = TRUE]

(* The MutationObserver callback for a batch of childList records *)
observerCallback(m) ==
    [m EXCEPT !.timers = setDebounce(clearDebounce(m.timers, m.debounceTimer)),
              !.debounceTimer = TRUE]

(* The mutation records of the script's own writes: input.disabled, the
   wrapper's class list and its title are attributes of nodes that stay;
   no node is added or removed *)
WritesOf(before, after) == IF before = after THEN {} ELSE {"attributes"}

(* observe(targetNode, { childList: true, subtree: true }) *)
ObserveOptions == {"childList"}

(* A callback that takes any record for a reason to update *)
shouldUpdateOnAnyRecord(records) == \E r \in records : TRUE

(* The observer is handed the records its options name, and its callback
   sets shouldUpdate for a record of type childList *)
shouldUpdate(records) ==
    \E r \in records : r \in ObserveOptions /\ r = "childList"

(* a script step that took the manager from `before` to `after`, and the
   observer's callback for the records of its writes *)
selfObserved(before, after) ==
    IF before.observer /\ shouldUpdate(WritesOf(before.controls, after.controls))
    THEN observerCallback(after)
    ELSE after

(* ---- events *)

(* handlePageLoad(page) *)
HandlePageLoad(page) ==
    /\ page.type = "PRODUCT" => BagCardinality(runs) < MaxRuns
    /\ Becomes(IF page.type = "PRODUCT"
               THEN [cleanup(Manager) EXCEPT
                        !.currentProductId = page.productId]
               ELSE cleanup(Manager))
    /\ runs' = IF page.type = "PRODUCT"
               THEN runs (+) One(Run(page.productId, "fetch"))
               ELSE runs
    /\ burst' = IF Pending \/ Due
                THEN [burst EXCEPT !.cancelled = TRUE] ELSE burst
    /\ UNCHANGED <<buildVars, container, script, lastOp, call, cacheVars, otherVars>>

PageLoad == \E page \in Pages : HandlePageLoad(page)

(* the request of a suspended checkStock ends with the given outcome *)
FetchEndsWith(run, outcome) ==
    /\ run \in BagToSet(runs)
    /\ run.stage = "fetch"
    /\ LET r == awaitFetch(outcome)
       IN  IF r.threw
           THEN /\ runs' = runs (-) One(run)
                /\ Becomes(checkStockResume(Manager, run.productId,
                                            catchAll(r)))
           ELSE /\ runs' = (runs (-) One(run))
                                (+) One(Run(run.productId, "json"))
                /\ Becomes(Manager)
    /\ UNCHANGED <<buildVars, container, burst, script, lastOp, call, cacheVars, otherVars>>

FetchEnds ==
    \E run \in BagToSet(runs), outcome \in FetchOutcomes :
        FetchEndsWith(run, outcome)

(* the body of its response has been read (or has failed to parse) *)
BodyEndsWith(run, body) ==
    /\ run \in BagToSet(runs)
    /\ run.stage = "json"
    /\ Becomes(selfObserved(Manager,
                checkStockResume(Manager, run.productId,
                                 catchAll(awaitJson(body)))))
    /\ runs' = runs (-) One(run)
    /\ UNCHANGED <<buildVars, container, burst, script, lastOp, call, cacheVars, otherVars>>

BodyEnds ==
    \E run \in BagToSet(runs) :
        \E body \in ResponseBodies(run.productId) : BodyEndsWith(run, body)

(* the host mutates the page under a connected observer, whose callback
   runs right after; a timeout that is due runs before the host's next task *)
MutationObserved ==
    /\ observer
    /\ ~Due
    /\ HostChange
    /\ LET m == observerCallback(Manager)
       IN  /\ timers' = m.timers
           /\ debounceTimer' = m.debounceTimer
    /\ burst' = IF Pending
                THEN [burst EXCEPT !.callbacks = 2]
                ELSE [callbacks |-> 1, applies |-> 0, cancelled |-> FALSE]
    /\ UNCHANGED <<buildVars, currentProductId, observer, stockMap,
                   stockMapFor, runs, missed, script, lastOp, call, cacheVars, otherVars>>

(* the host mutates the page while no observer is connected *)
MutationUnobserved ==
    /\ ~observer
    /\ ~Due
    /\ HostChange
    /\ UNCHANGED <<buildVars, mgrVars, script, lastOp, call, cacheVars, otherVars>>

(* time passes, up to the moment the next timeout is due *)
Tick ==
    /\ Pending
    /\ ~Due
    /\ timers' = [k \in 1..Len(timers) |->
                    [timers[k] EXCEPT !.left =
                        IF @ > TickMs THEN @ - TickMs ELSE 0]]
    /\ UNCHANGED <<buildVars, currentProductId, observer, debounceTimer,
                   stockMap, stockMapFor, runs, missed, burst, pageVars,
                   script, lastOp, call, cacheVars, otherVars>>

(* A timeout callback that fetches the stock again instead of re-applying
   the held decision *)
DebounceFireRefetch ==
    /\ BagCardinality(runs) < MaxRuns
    /\ \E k \in 1..Len(timers) :
          /\ timers[k].left = 0
          /\ timers' = RemoveAt(timers, k)
    /\ runs' = runs (+) One(Run(currentProductId, "fetch"))
    /\ burst' = [burst EXCEPT !.applies = IF @ < 2 THEN @ + 1 ELSE @]
    /\ UNCHANGED <<buildVars, currentProductId, observer, debounceTimer,
                   stockMap, stockMapFor, missed, pageVars, script, lastOp,
                   call, cacheVars, otherVars>>

(* the debounce timeout runs: this.applyStockToDom() *)
DebounceFire ==
    /\ \E k \in 1..Len(timers) :
          /\ timers[k].left = 0
          /\ LET fired == RemoveAt(timers, k)
                 after == applyStockToDom(container, controls, stockMap)
                 seen  == observer /\ shouldUpdate(WritesOf(controls, after))
             IN  /\ timers' = IF seen
                              THEN setDebounce(clearDebounce(fired,
                                                             debounceTimer))
                              ELSE fired
                 /\ debounceTimer' = (seen \/ debounceTimer)
                 /\ controls' = after
    /\ burst' = [burst EXCEPT !.applies = IF @ < 2 THEN @ + 1 ELSE @]
    /\ UNCHANGED <<buildVars, currentProductId, observer, stockMap,
                   stockMapFor, runs, missed, container, script, lastOp,
                   call, cacheVars, otherVars>>

Init ==
    /\ IdleManager /\ IdlePage /\ IdleBuild
    /\ script = "v2" /\ lastOp = "init" /\ call = NoCall /\ IdleCache /\ IdleOther

Next ==
    \/ PageLoad
    \/ FetchEnds
    \/ BodyEnds
    \/ MutationObserved
    \/ MutationUnobserved
    \/ Tick
    \/ DebounceFire

Spec == Init /\ [][Next]_vars

(* The timeouts run when due and time keeps passing while one is pending.
   Both actions change timers whenever they happen. *)
LiveSpec == Spec /\ WF_timers(Tick) /\ WF_timers(DebounceFire)

---------------------------------------------------------------------------
(* Claims about the StockManager on a page *)

(* C1: a result fetched for an earlier product is discarded: whenever the
   held stockMap is not empty, it was built from the records fetched for
   the current product identity. *)
C1_StaleResultDiscarded ==
    stockMap # EmptyMap => stockMapFor = currentProductId

(* C2: at most one stock request is in flight per product identity. *)
C2_OneRequestPerProduct ==
    \A p \in Products \cup {0} : InFlight(p) <= 1

Decided(i) == controls[i].disabled = ~Available(stockMap, i)

Concerned(i) ==
    container /\ controls[i].present /\ InDecision(stockMap, i)

HostSettles == <>[][~(MutationObserved \/ MutationUnobserved)]_vars

(* C7: when checkStock's apply finds no options container it changes
   nothing and the watcher is armed all the same - a held decision is
   always watched; and once the host has rendered the controls and lets
   the page be, every rendered control the held decision has an entry for
   reaches its decided disabled state, unless a page-load signal drops
   the decision first. *)
C7_AbsentControlsAreCaughtUp ==
    /\ [](stockMap # EmptyMap => observer)
    /\ [][(~container /\ BodyEnds) => controls' = controls]_vars
    /\ HostSettles => \A i \in Slots : Concerned(i) ~> (~Concerned(i) \/ Decided(i))

(* The first apply found no container; the control rendered later was
   disabled by the debounced re-apply *)
C7_Witness ==
    /\ missed /\ observer
    /\ burst.applies = 1
    /\ \E i \in Slots :
          Concerned(i) /\ ~Available(stockMap, i) /\ controls[i].disabled

(* C8: a mutation seen by the watcher, and the debounced pass it causes,
   start no stock request; a request starts only in the handling of a
   page-load signal typed PRODUCT. *)
C8_WatcherNeverFetches ==
    [][ /\ (MutationObserved \/ DebounceFire) => runs' = runs
        /\ BagCardinality(runs') > BagCardinality(runs) =>
              \E page \in Pages :
                  page.type = "PRODUCT" /\ HandlePageLoad(page) ]_vars

(* A debounced re-apply has run while no request was in flight *)
C8_Witness ==
    /\ observer /\ stockMap # EmptyMap
    /\ burst.applies = 1
    /\ runs = EmptyBag

(* C9 as stated: per burst of callbacks the debounced applyStockToDom runs
   exactly once, after the last callback: not while the burst's timeout
   is pending, and once when none is pending any more. *)
C9_ExactlyOncePerBurst ==
    burst.callbacks > 0 =>
        IF Pending \/ Due THEN burst.applies = 0 ELSE burst.applies = 1

(* C9 amended: the same, unless a page-load signal arrives before the
   timeout runs: cleanup clears it and the pass does not run at all. *)
C9_OncePerBurstUnlessCleanedUp ==
    burst.callbacks > 0 =>
        IF Pending \/ Due THEN burst.applies = 0
        ELSE IF burst.cancelled THEN burst.applies = 0
        ELSE burst.applies = 1

(* A burst of several callbacks has been followed by its one pass *)
C9_Witness ==
    /\ burst.callbacks = 2
    /\ ~burst.cancelled
    /\ burst.applies = 1
    /\ timers = <<>>

(* C19: after a page-load signal for a non-product page the held decision
   is empty and no change-watcher is armed, until the next page-load
   signal for a product page - also when a request started earlier ends in
   between.  this.currentProductId is null exactly from such a signal (or
   from construction) until the next signal typed PRODUCT. *)
C19_IdleAfterLeaving ==
    currentProductId = 0 => (stockMap = EmptyMap /\ ~observer)

(* C20: a stock request is issued only for a product identity: none is in
   flight for the absent identity of a page-load signal typed PRODUCT that
   carries no productId. *)
C20_NoFetchWithoutIdentity == InFlight(Undefined) = 0

(* the ways the retrieval of a suspended checkStock fails: the request
   ends in a network error, an abort or a non-OK status, or the body of
   the response does not parse *)
RetrievalFails ==
    \E run \in BagToSet(runs) :
        \/ \E outcome \in FetchOutcomes \ {"ok"} : FetchEndsWith(run, outcome)
        \/ BodyEndsWith(run, Body("unparsable", <<>>))

(* C18: fail-open.  The step that handles a failed retrieval changes no
   control's disabled state, selection or wrapper marking; it holds no
   decision and arms no watcher either. *)
C18_FailOpen ==
    [][RetrievalFails =>
          /\ controls' = controls
          /\ stockMap' = stockMap
          /\ observer' = observer]_vars

(* The request for the current product is over without a decision, and the
   rendered controls are as the host rendered them, one of them disabled *)
C18_Witness ==
    /\ currentProductId \in Products
    /\ runs = EmptyBag
    /\ stockMap = EmptyMap /\ ~observer
    /\ container
    /\ \A i \in HostSlots : controls[i].present
    /\ \E i \in Slots : controls[i].disabled

---------------------------------------------------------------------------
(* SpecCache: the V1 (Size-only) script, src/src/url-localization.js
   261-438: runForProduct with its sessionStorage cache.

   One run is followed at a time.  The run record holds its stage, the
   store and product it is for, the requests the script has issued so far,
   where its records came from (source), the records, and whether it
   applied a decision.  stockMap holds the map the reapply closure of
   observeAndReapply captured, observer whether its watcher is connected. *)

MaxRequests == 2     \* most stock requests the script issues
MaxPeriods  == 2     \* the clock is followed over so many cache lifetimes

CACHE_TTL_MS == 60000

(* the readings of Date.now() that are explored: around each multiple of
   the cache lifetime *)
Instants ==
    {0} \cup { k * CACHE_TTL_MS + d : k \in 1..MaxPeriods, d \in {-1, 0, 1} }

(* getStoreIdSafe(): the owner id, or null (0) *)
StoreIds == {0, 1}

(* `ecwid-combos:${storeId}:${productId}` *)
cacheKey(storeId, productId) == <<storeId, productId>>

(* ---- JSON texts.  A text is either the serialisation of a value or not
   JSON at all. *)

(* JSON.stringify({ t: Date.now(), items }) *)
Stringify(t, items) ==
    [json |-> TRUE, value |-> [type |-> "object", t |-> t, items |-> items]]

(* texts that runForProduct did not write: not JSON, the JSON null, an
   entry whose items is not an array *)
ForeignTexts ==
    { [json |-> FALSE, value |-> [type |-> "none"]],
      [json |-> TRUE,  value |-> [type |-> "null"]],
      Stringify(0, [type |-> "number"]) }

(* JSON.parse(cached) *)
Parse(text) == IF text.json THEN Value(text.value) ELSE Thrown

(* Date.now() - t <= CACHE_TTL_MS: an entry is still used at the very end
   of its lifetime *)
isFreshInclusive(now, t) == now - t <= CACHE_TTL_MS

(* Date.now() - t < CACHE_TTL_MS *)
isFresh(now, t) == now - t < CACHE_TTL_MS

(* const { t, items } = JSON.parse(cached);
   if (Date.now() - t < CACHE_TTL_MS && Array.isArray(items)): the cached
   records, or a miss.  Destructuring null throws, into the empty catch. *)
NoHit == [hit |-> FALSE, items |-> <<>>]

readEntry(texts, key, now) ==
    IF ~MapHas(texts, key) THEN NoHit
    ELSE LET parsed == Parse(texts[key]) IN
         IF parsed.threw THEN NoHit
         ELSE IF parsed.value.type # "object" THEN NoHit
         ELSE IF isFresh(now, parsed.value.t)
                 /\ parsed.value.items.type = "array"
              THEN [hit |-> TRUE, items |-> parsed.value.items.items]
              ELSE NoHit

(* applyDisabledMap(map): every Size radio whose value the map holds is
   marked; a checked radio that is now disabled gives way to the first
   enabled one *)
applyDisabledMap(ctrls, map) ==
    LET inputs == { i \in Slots :
                      ctrls[i].present /\ Layout[i].name = OPTION_NAME }
        marked == [i \in Slots |->
                     IF i \in inputs /\ MapHas(map, Layout[i].value)
                     THEN markInput(ctrls[i], i, map[Layout[i].value])
                     ELSE ctrls[i]]
        checkedOnes == { i \in inputs : marked[i].checked }
        enabledOnes == { i \in inputs : ~marked[i].disabled }
    IN  IF inputs = {} THEN ctrls
        ELSE IF checkedOnes # {} /\ marked[Min(checkedOnes)].disabled
                /\ enabledOnes # {}
             THEN click(marked, Min(enabledOnes))
             ELSE marked

(* const data = await res.json();
   return Array.isArray(data?.items) ? data.items : [] *)
awaitJsonV1(body) ==
    CASE body.shape = "unparsable" -> Thrown
      [] body.shape = "items"      -> Value(Array(body.items))
      [] OTHER                     -> Value(Array(<<>>))

(* pages the host has rendered: both Size radios enabled, in fresh
   wrappers, nothing or the first one selected *)
HostPages ==
    { [i \in Slots |-> Rendered(Absent, FALSE, i = k, FALSE)] : k \in {0, 1} }

(* what sessionStorage holds when the script starts, and how it behaves:
   "full" makes setItem throw, "denied" makes every access throw *)
InitialStores ==
    { [mode |-> m, texts |-> tx] :
         m \in {"ok", "full", "denied"},
         tx \in {EmptyMap}
                  \cup { MapSet(EmptyMap, cacheKey(1, 1), f) : f \in ForeignTexts } }

InitCache ==
    /\ clock = 0
    /\ sessionStore \in InitialStores
    /\ v1 = NoRun
    /\ container = TRUE
    /\ controls \in HostPages
    /\ IdleBuild /\ IdleManager /\ call = NoCall /\ IdleOther
    /\ script = "v1" /\ lastOp = "init"

cacheFrame ==
    UNCHANGED <<buildVars, currentProductId, debounceTimer, timers,
                stockMapFor, runs, missed, burst, container, script, lastOp,
                call, otherVars>>

(* const map = buildAvailabilityMap(items); applyDisabledMap(map);
   observeAndReapply(() => applyDisabledMap(map)) *)
V1Applies(items) ==
    LET map == buildSizeMap(EmptyMap, items)
    IN  /\ stockMap' = map
        /\ controls' = applyDisabledMap(controls, map)
        /\ observer' = TRUE

V1Returns == UNCHANGED <<stockMap, controls, observer>>

Ended(stage, source, items, applied) ==
    [v1 EXCEPT !.stage = stage, !.source = source, !.items = items,
               !.applied = applied]

(* runForProduct that does not look at the cache *)
runForProductNoCache(storeId, productId) ==
    IF storeId = 0 \/ productId = 0
    THEN /\ v1' = [Ended("done", "none", <<>>, FALSE) EXCEPT
                      !.storeId = storeId, !.productId = productId]
         /\ V1Returns
    ELSE /\ v1' = [Ended("fetch", "network", <<>>, FALSE) EXCEPT
                      !.storeId = storeId, !.productId = productId,
                      !.requests = @ + 1]
         /\ V1Returns

(* runForProduct(productId) up to its first await, or to its return *)
runForProduct(storeId, productId) ==
    IF storeId = 0 \/ productId = 0
    THEN /\ v1' = [Ended("done", "none", <<>>, FALSE) EXCEPT
                      !.storeId = storeId, !.productId = productId]
         /\ V1Returns
    ELSE IF sessionStore.mode = "denied"
    THEN /\ v1' = [Ended("threw", "none", <<>>, FALSE) EXCEPT
                      !.storeId = storeId, !.productId = productId]
         /\ V1Returns
    ELSE LET entry == readEntry(sessionStore.texts,
                                cacheKey(storeId, productId), clock)
         IN  IF entry.hit
             THEN /\ v1' = [Ended("done", "cache", entry.items, TRUE) EXCEPT
                               !.storeId = storeId, !.productId = productId]
                  /\ V1Applies(entry.items)
             ELSE /\ v1' = [Ended("fetch", "network", <<>>, FALSE) EXCEPT
                               !.storeId = storeId, !.productId = productId,
                               !.requests = @ + 1]
                  /\ V1Returns

(* the page-load signal of a product page (or the product URL at init) *)
RunForProduct ==
    /\ v1.stage # "fetch"
    /\ v1.requests < MaxRequests
    /\ \E storeId \in StoreIds, productId \in Products :
          runForProduct(storeId, productId)
    /\ UNCHANGED <<clock, sessionStore>>
    /\ cacheFrame

(* sessionStorage.setItem(cacheKey, text) when it does not throw *)
setItem(store, key, text) ==
    [store EXCEPT !.texts = MapSet(store.texts, key, text)]

(* items = await fetchCombinations(storeId, productId) settles, and
   runForProduct runs to its end *)
V1FetchEnds ==
    /\ v1.stage = "fetch"
    /\ \E outcome \in FetchOutcomes \ {"abort"},
          body \in ResponseBodies(v1.productId) :
          LET response == awaitFetch(outcome)
              r == IF response.threw THEN Thrown ELSE awaitJsonV1(body)
          IN  IF r.threw
              THEN /\ v1' = Ended("done", "network", <<>>, FALSE)
                   /\ UNCHANGED sessionStore
                   /\ V1Returns
              ELSE LET items == r.value.items IN
                   IF sessionStore.mode = "full"
                   THEN /\ v1' = Ended("done", "network", items, FALSE)
                        /\ UNCHANGED sessionStore
                        /\ V1Returns
                   ELSE /\ sessionStore' =
                              setItem(sessionStore,
                                      cacheKey(v1.storeId, v1.productId),
                                      Stringify(clock, Array(items)))
                        /\ IF Len(items) = 0
                           THEN /\ v1' = Ended("done", "network", items, FALSE)
                                /\ V1Returns
                           ELSE /\ v1' = Ended("done", "network", items, TRUE)
                                /\ V1Applies(items)
    /\ UNCHANGED clock
    /\ cacheFrame

(* time passes *)
ClockAdvances ==
    /\ \E t \in Instants : t > clock /\ clock' = t
    /\ UNCHANGED <<sessionStore, v1, stockMap, controls, observer>>
    /\ cacheFrame

NextCache == RunForProduct \/ V1FetchEnds \/ ClockAdvances

SpecCache == InitCache /\ [][NextCache]_vars

---------------------------------------------------------------------------
(* Claims about the V1 script's cache *)

(* the text under a key is an entry: an object with a time and a list of
   records *)
IsEntry(texts, key) ==
    /\ MapHas(texts, key)
    /\ texts[key].json
    /\ texts[key].value.type = "object"
    /\ texts[key].value.items.type = "array"

EntryTime(texts, key) == texts[key].value.t

EntryRecords(texts, key) == texts[key].value.items.items

RunKey(run) == cacheKey(run.storeId, run.productId)

(* C14: cache round trip.  Records a run fetched and applied are stored
   under its key with the time of the write; a run that reads an entry
   less than CACHE_TTL_MS after its time uses exactly the entry's records
   and sends no request; at or after CACHE_TTL_MS the entry counts as
   absent and a fresh fetch is made. *)
C14_CacheRoundTrip ==
    [][ /\ (V1FetchEnds /\ v1'.applied) =>
              /\ IsEntry(sessionStore'.texts, RunKey(v1))
              /\ EntryTime(sessionStore'.texts, RunKey(v1)) = clock
              /\ EntryRecords(sessionStore'.texts, RunKey(v1)) = v1'.items
        /\ (RunForProduct /\ sessionStore.mode = "ok"
               /\ IsEntry(sessionStore.texts, RunKey(v1'))) =>
              IF clock - EntryTime(sessionStore.texts, RunKey(v1'))
                    < CACHE_TTL_MS
              THEN /\ v1'.stage = "done" /\ v1'.source = "cache"
                   /\ v1'.items = EntryRecords(sessionStore.texts, RunKey(v1'))
                   /\ v1'.requests = v1.requests
              ELSE /\ v1'.stage = "fetch"
                   /\ v1'.requests = v1.requests + 1 ]_vars

(* A run read, one millisecond before its lifetime ended, the records an
   earlier run had stored *)
C14_Witness ==
    /\ v1.stage = "done" /\ v1.source = "cache"
    /\ Len(v1.items) > 0
    /\ IsEntry(sessionStore.texts, RunKey(v1))
    /\ clock - EntryTime(sessionStore.texts, RunKey(v1)) = CACHE_TTL_MS - 1

(* the entry for a store and product is valid: storage is accessible, the
   text is present and parses to an entry younger than the lifetime *)
ValidEntry(key) ==
    /\ sessionStore.mode # "denied"
    /\ IsEntry(sessionStore.texts, key)
    /\ clock - EntryTime(sessionStore.texts, key) < CACHE_TTL_MS

(* C15: a run for a product whose cache entry is valid issues no request
   and builds its decision from the cached records; a request is issued
   only on a miss. *)
C15_ValidEntryMeansNoRequest ==
    [][ RunForProduct =>
          /\ ValidEntry(RunKey(v1')) =>
                /\ v1'.requests = v1.requests
                /\ stockMap' = buildSizeMap(EmptyMap,
                                  EntryRecords(sessionStore.texts, RunKey(v1')))
          /\ v1'.requests > v1.requests => ~ValidEntry(RunKey(v1')) ]_vars

(* After the one request that filled the cache, a later run applied a
   decision from the cache *)
C15_Witness ==
    /\ v1.stage = "done" /\ v1.source = "cache" /\ v1.applied
    /\ v1.requests = 1
    /\ observer /\ stockMap # EmptyMap

(* C16: a failing sessionStorage write after a successful fetch neither
   throws nor loses the data: a run that fetched records ends with the
   decision built from them and applied. *)
C16_WriteFailureKeepsData ==
    (v1.stage \in {"done", "threw"} /\ v1.source = "network"
        /\ Len(v1.items) > 0) =>
        /\ v1.stage = "done"
        /\ v1.applied
        /\ stockMap = buildSizeMap(EmptyMap, v1.items)

(* C17: a failing read of the durable tier - the access throws, or the
   text does not parse - is a cache miss: the run goes on to fetch and no
   exception escapes runForProduct. *)
C17_ReadFailureIsMiss ==
    [][ (RunForProduct /\ v1'.storeId # 0
            /\ \/ sessionStore.mode = "denied"
               \/ /\ MapHas(sessionStore.texts, RunKey(v1'))
                  /\ Parse(sessionStore.texts[RunKey(v1')]).threw) =>
          v1'.stage = "fetch" ]_vars

---------------------------------------------------------------------------
(* Auto-selection *)

(* The inputs of a group on the page, and those of them a map sells *)
Group(ctrls, n) == { i \in Slots : ctrls[i].present /\ Layout[i].name = n }

InStockOnes(ctrls, map, n) ==
    { i \in Group(ctrls, n) : InDecision(map, i) /\ Available(map, i) }

(* The selection of group n maps to false and some control of it to true *)
SelectionSoldOut(ctrls, map, n) ==
    /\ \E i \in Group(ctrls, n) : ctrls[i].checked
    /\ \A i \in Group(ctrls, n) :
          ctrls[i].checked => (InDecision(map, i) /\ ~Available(map, i))
    /\ InStockOnes(ctrls, map, n) # {}

OnlySelected(ctrls, n, k) ==
    \A i \in Group(ctrls, n) : ctrls[i].checked <=> (i = k)

(* C24 as stated: in v3.0, when the selected control of a group maps to
   false and some control of the group maps to true, the apply leaves the
   first control in document order whose value maps to true selected, and
   only that one, and starts no request. *)
C24_FirstInStockSelected ==
    [][ ApplyStockStatus =>
          \A n \in DOMAIN stockMap :
              SelectionSoldOut(controls, stockMap, n) =>
                  /\ OnlySelected(controls', n,
                                  Min(InStockOnes(controls, stockMap, n)))
                  /\ runs' = runs ]_vars

(* C24: in v3.0, when the selected control of a group maps to false and
   some control of the group maps to true, the apply leaves the first
   control in document order that is not disabled selected, and only that
   one - a control whose value maps to true, or an earlier one the decision
   has no entry for and the host left enabled - and starts no request. *)
C24_FirstEnabledSelected ==
    [][ ApplyStockStatus =>
          \A n \in DOMAIN stockMap :
              SelectionSoldOut(controls, stockMap, n) =>
                  /\ OnlySelected(controls', n,
                        Min({ i \in Group(controls', n) :
                                ~controls'[i].disabled }))
                  /\ runs' = runs ]_vars

(* The decision was applied to a page where the sold-out M is disabled and
   unselected and two controls are enabled, the first of them selected *)
C24_Witness ==
    /\ script = "v3" /\ lastOp = "apply"
    /\ stockMap = buildAvailabilityMap(SizeMOutLIn)
    /\ controls[2].present /\ controls[2].disabled /\ ~controls[2].checked
    /\ controls[3].present /\ ~controls[3].disabled /\ ~controls[3].checked
    /\ controls[1].present /\ ~controls[1].disabled /\ controls[1].checked

(* C25: after the StockManager applies a decision, a group whose selected
   control is now disabled, or in which nothing is selected, and which has
   an enabled control, has its first enabled control selected. *)
C25_StockManagerSelectsFirstEnabled ==
    [][ (ApplyStockToDom /\ container) =>
          \A n \in OptionNames :
              LET inputs == Group(controls', n)
                  sel == { i \in inputs : controls[i].checked }
                  enabledOnes == { i \in inputs : ~controls'[i].disabled }
              IN  ((sel = {} \/ \E i \in sel : controls'[i].disabled)
                      /\ enabledOnes # {})
                    => controls'[Min(enabledOnes)].checked ]_vars

---------------------------------------------------------------------------
(* Order of the records *)

Perms(n) ==
    { p \in [1..n -> 1..n] : \A a, b \in 1..n : p[a] = p[b] => a = b }

Permuted(l, p) == [k \in 1..Len(l) |-> l[p[k]]]

(* C26: build is order-independent: every permutation of a list of records
   yields the decision the list yields. *)
C26_BuildOrderIndependent ==
    built.done =>
        \A p \in Perms(Len(combinations)) :
            buildAvailabilityMap(Permuted(combinations, p)) = built.map

(* Two different records share a pair, the first of them out of stock and
   the second in stock, and the decision was built *)
C26_Witness ==
    /\ built.done
    /\ Len(combinations) >= 2
    /\ \E N \in OptionNames \ {""}, V \in OptionValues \ {""} :
          /\ {1, 2} \subseteq RecordsWith(N, V)
          /\ ~PositiveSignal(combinations[1])
          /\ PositiveSignal(combinations[2])
          /\ built.map[N][V] = TRUE

(* C29: the V1 script's buildAvailabilityMap maps a size to TRUE whenever a
   combination containing that size is in stock, wherever the combination
   stands in the list. *)
C29_SizeInStockIfAnyRecord ==
    built.sizeDone =>
        \A V \in OptionValues \ {""} :
            (\E j \in RecordsWith(OPTION_NAME, V) :
                PositiveSignal(combinations[j]))
              => (MapHas(built.sizeMap, V) /\ built.sizeMap[V] = TRUE)

---------------------------------------------------------------------------
(* Response shapes *)

(* C28: fetchCombinations returns exactly the records of the response when
   the body is a bare array or an object with an items array, and an empty
   list for every other body: null, an object without items, an object
   whose items is not an array. *)
C28_RecordsOrEmptyList ==
    (call.stage = "settled" /\ call.outcome = "ok") =>
        call.result =
            Resolved(IF call.body.shape \in {"array", "items"}
                     THEN Array(call.body.items)
                     ELSE Array(<<>>))

---------------------------------------------------------------------------
(* Empty decisions *)

(* the response of a suspended checkStock arrives with records the decision
   built from which is empty *)
RunWithEmptyDecision ==
    \E run \in BagToSet(runs) :
        \E body \in ResponseBodies(run.productId) :
            /\ body.shape \in {"array", "items"}
            /\ buildAvailabilityMap(body.items) = EmptyMap
            /\ BodyEndsWith(run, body)

(* C27: an empty records list yields an empty decision, and a run whose
   decision is empty leaves every control and wrapper untouched: nothing is
   disabled, enabled or selected. *)
C27_EmptyDecisionTouchesNothing ==
    [][ /\ buildAvailabilityMap(<<>>) = EmptyMap
        /\ RunWithEmptyDecision => controls' = controls ]_vars

(* The run for the current product ended with an empty decision held, on a
   page whose controls are rendered, one disabled by the host, one not *)
C27_Witness ==
    /\ currentProductId \in Products
    /\ stockMapFor = currentProductId
    /\ stockMap = EmptyMap /\ ~observer
    /\ runs = EmptyBag
    /\ container
    /\ \E i, j \in Slots :
          /\ controls[i].present /\ controls[i].disabled
          /\ controls[j].present /\ ~controls[j].disabled

---------------------------------------------------------------------------
(* v3.0 (src/custom-popmerch.js 1-520): discovery of the options container
   and the run it starts.

   document.instance is the container element in the document (0: none);
   the host creates a new element, numbered document.created + 1, whenever
   it renders the options.  document.ids is where the page shows the
   product's id, one field per method of extractProductIdFromPage: the id
   the method parses, 0 when its element is missing, its pattern does not
   match or the number it parses is 0.  currentProductId is the script's
   module-level variable, which the fetch interceptor writes; observer says
   whether setupDOMObserver has connected its MutationObserver.

   runs holds one record per processProductOptions(container) the script
   has queued: waiting for its 100 ms timeout ("timeout"), for the 500 ms
   timeout ("wait"), for fetchProductCombinations ("fetch"), or over
   ("done"); productId is the id it gave fetchProductCombinations, 0 when it
   has issued no request.  The two awaits of fetchProductCombinations are one
   step: the function touches nothing of the script between them. *)

MaxContainers == 2     \* most container elements the host creates

(* the id each method finds when it succeeds *)
PageIds ==
    [browserClass |-> 11, storeClass |-> 12, dataAttr |-> 13,
     inlineScript |-> 14, ecConfig |-> 15]

IdPatterns ==
    { [f \in DOMAIN PageIds |-> IF f \in S THEN PageIds[f] ELSE 0] :
        S \in SUBSET DOMAIN PageIds }

(* Methods 1 to 5 in turn, each returning its id if (id); return null *)
extractProductIdFromPageDataFirst(ids) ==
    IF ids.dataAttr # 0 THEN ids.dataAttr
    ELSE IF ids.browserClass # 0 THEN ids.browserClass
    ELSE IF ids.storeClass # 0 THEN ids.storeClass
    ELSE IF ids.inlineScript # 0 THEN ids.inlineScript
    ELSE IF ids.ecConfig # 0 THEN ids.ecConfig
    ELSE 0

extractProductIdFromPage(ids) ==
    IF ids.browserClass # 0 THEN ids.browserClass
    ELSE IF ids.storeClass # 0 THEN ids.storeClass
    ELSE IF ids.dataAttr # 0 THEN ids.dataAttr
    ELSE IF ids.inlineScript # 0 THEN ids.inlineScript
    ELSE IF ids.ecConfig # 0 THEN ids.ecConfig
    ELSE 0

Proc(c, stage, p) == [container |-> c, stage |-> stage, productId |-> p]

Replaced(rs, old, new) == (rs (-) One(old)) (+) One(new)

(* the requests the queued runs have issued *)
Requests(rs) ==
    BagCardinality([t \in { x \in BagToSet(rs) : x.productId # 0 } |-> rs[t]])

(* how many times processProductOptions was queued for container c *)
QueuedFor(rs, c) ==
    BagCardinality([t \in { x \in BagToSet(rs) : x.container = c } |-> rs[t]])

v3Frame ==
    UNCHANGED <<buildVars, debounceTimer, timers, stockMap, stockMapFor,
                missed, burst, script, lastOp, call, cacheVars, flags,
                observers, others>>

(* ---- the host *)

(* the controls as the host renders them: all enabled, M selected *)
RenderedPage == [i \in Slots |-> Rendered(Absent, FALSE, i = 2, FALSE)]

(* the pages of the product views explored: no id anywhere, or the id in a
   data-product-id attribute *)
V3Pages(p) == { NoIds, [NoIds EXCEPT !.dataAttr = p] }

(* the host navigates to the view of product p: the options of the view
   before leave the document *)
HostNavigates ==
    /\ \E p \in Products :
          document' = [document EXCEPT !.product = p, !.instance = 0,
                                       !.ids = NoIds]
    /\ container' = FALSE
    /\ controls' = NoControls
    /\ UNCHANGED <<currentProductId, observer, runs, processedContainers>>
    /\ v3Frame

(* the host renders the options of the product in view: a new container
   element *)
HostRendersOptions ==
    /\ document.product # 0
    /\ document.created < MaxContainers
    /\ \E ids \in V3Pages(document.product) :
          document' = [document EXCEPT
                          !.instance = document.created + 1,
                          !.created = document.created + 1,
                          !.ids = ids]
    /\ container' = TRUE
    /\ controls' = RenderedPage
    /\ UNCHANGED <<currentProductId, observer, runs, processedContainers>>
    /\ v3Frame

(* the host takes the product options out of the document *)
HostRemovesOptions ==
    /\ document.instance # 0
    /\ document' = [document EXCEPT !.instance = 0]
    /\ container' = FALSE
    /\ controls' = NoControls
    /\ UNCHANGED <<currentProductId, observer, runs, processedContainers>>
    /\ v3Frame

(* window.fetch as replaced by setupFetchInterceptor: the host requests
   /catalog/product for the product in view and the script keeps its id *)
InterceptorCaptures ==
    /\ document.product # 0
    /\ currentProductId' = document.product
    /\ UNCHANGED <<observer, runs, processedContainers, document, pageVars>>
    /\ v3Frame

(* ---- discovery *)

(* The check without the test of processedContainers *)
checkForOptionsEveryTime(inst, processed, rs) ==
    IF inst # 0 /\ BagCardinality(rs) <= MaxContainers
    THEN [processed |-> processed \cup {inst},
          runs |-> rs (+) One(Proc(inst, "timeout", 0))]
    ELSE [processed |-> processed, runs |-> rs]

(* const container = document.querySelector(...);
   if (container && !processedContainers.has(container)) {
       processedContainers.add(container);
       setTimeout(() => processProductOptions(container), 100) } *)
checkForOptions(inst, processed, rs) ==
    IF inst # 0 /\ inst \notin processed
    THEN [processed |-> processed \cup {inst},
          runs |-> rs (+) One(Proc(inst, "timeout", 0))]
    ELSE [processed |-> processed, runs |-> rs]

(* setupDOMObserver(): observe document.body, and the check at once *)
SetupDOMObserver ==
    /\ ~observer
    /\ observer' = TRUE
    /\ LET r == checkForOptions(document.instance, processedContainers, runs)
       IN  processedContainers' = r.processed /\ runs' = r.runs
    /\ UNCHANGED <<currentProductId, document, pageVars>>
    /\ v3Frame

(* the MutationObserver callback, after any change of the body's subtree *)
ObserverCallback ==
    /\ observer
    /\ LET r == checkForOptions(document.instance, processedContainers, runs)
       IN  processedContainers' = r.processed /\ runs' = r.runs
    /\ UNCHANGED <<currentProductId, observer, document, pageVars>>
    /\ v3Frame

(* ---- processProductOptions(container) *)

(* up to its first await: with no id yet, wait 500 ms *)
processStart(task, captured) ==
    IF captured = 0 THEN [task EXCEPT !.stage = "wait"]
    ELSE [task EXCEPT !.stage = "fetch", !.productId = captured]

(* After the wait it asks for the stock of whatever id it has, null too *)
processAfterWaitAnyway(task, captured, ids) ==
    LET id == IF captured # 0 THEN captured
              ELSE extractProductIdFromPage(ids)
    IN  [task |-> [task EXCEPT !.stage = "fetch",
                               !.productId = IF id = 0 THEN Undefined ELSE id],
         currentProductId |-> id]

(* after the 500 ms: the page is searched if there is still no id; with
   none found the run returns *)
processAfterWait(task, captured, ids) ==
    LET id == IF captured # 0 THEN captured
              ELSE extractProductIdFromPage(ids)
    IN  [task |-> IF id = 0 THEN [task EXCEPT !.stage = "done"]
                  ELSE [task EXCEPT !.stage = "fetch", !.productId = id],
         currentProductId |-> id]

(* after fetchProductCombinations: nothing without records or without a
   decision; else applyStockStatus on the document as it is now *)
processResume(ctrls, result) ==
    IF result.kind = "rejected" THEN ctrls
    ELSE LET v == result.value IN
         IF v.type # "array" THEN ctrls
         ELSE IF Len(v.items) = 0 THEN ctrls
         ELSE LET map == buildAvailabilityMap(v.items)
              IN  IF map = EmptyMap THEN ctrls
                  ELSE applyStockStatus(ctrls, map)

(* the 100 ms timeout of a queued run fires *)
TimeoutFiresFor(task) ==
    /\ task \in BagToSet(runs)
    /\ task.stage = "timeout"
    /\ runs' = Replaced(runs, task, processStart(task, currentProductId))
    /\ UNCHANGED <<currentProductId, observer, processedContainers, document,
                   pageVars>>
    /\ v3Frame

TimeoutFires == \E task \in BagToSet(runs) : TimeoutFiresFor(task)

(* the 500 ms timeout of a waiting run fires *)
ProcWaitEndsFor(task) ==
    /\ task \in BagToSet(runs)
    /\ task.stage = "wait"
    /\ LET r == processAfterWait(task, currentProductId, document.ids)
       IN  /\ runs' = Replaced(runs, task, r.task)
           /\ currentProductId' = r.currentProductId
    /\ UNCHANGED <<observer, processedContainers, document, pageVars>>
    /\ v3Frame

ProcWaitEnds == \E task \in BagToSet(runs) : ProcWaitEndsFor(task)

(* what the stock endpoint may answer a v3.0 run *)
V3Bodies == OddBodies \cup RecordBodies({<<>>, SizeMOutLIn})

(* fetchProductCombinations(productId) settles and the run goes to its end *)
ProcFetchEndsFor(task) ==
    /\ task \in BagToSet(runs)
    /\ task.stage = "fetch"
    /\ \E outcome \in FetchOutcomes \ {"abort"}, body \in V3Bodies :
          LET response == awaitFetch(outcome)
              result == catchAll(IF response.threw THEN Thrown
                                 ELSE awaitJson(body))
          IN  controls' = processResume(controls, result)
    /\ runs' = Replaced(runs, task, [task EXCEPT !.stage = "done"])
    /\ UNCHANGED <<currentProductId, observer, processedContainers, document,
                   container>>
    /\ v3Frame

ProcFetchEnds == \E task \in BagToSet(runs) : ProcFetchEndsFor(task)

InitV3 ==
    /\ script = "v3" /\ lastOp = "init"
    /\ IdleManager /\ burst = NoBurst /\ IdlePage /\ IdleBuild
    /\ call = NoCall /\ IdleCache /\ IdleOther

NextV3 ==
    \/ HostNavigates
    \/ HostRendersOptions
    \/ HostRemovesOptions
    \/ InterceptorCaptures
    \/ SetupDOMObserver
    \/ ObserverCallback
    \/ TimeoutFires
    \/ ProcWaitEnds
    \/ ProcFetchEnds

SpecV3 == InitV3 /\ [][NextV3]_vars

(* SpecExtract: one queued run on a page showing the id in any of the
   places, the interceptor capturing an id before, during or after *)
InitExtract ==
    /\ script = "v3" /\ lastOp = "init"
    /\ document \in { [instance |-> 1, created |-> 1, ids |-> ids,
                        product |-> 1] :
                        ids \in IdPatterns }
    /\ processedContainers = {1}
    /\ runs = One(Proc(1, "timeout", 0))
    /\ container = TRUE /\ controls = RenderedPage
    /\ currentProductId = 0 /\ observer = TRUE
    /\ debounceTimer = FALSE /\ timers = <<>> /\ stockMap = EmptyMap
    /\ stockMapFor = 0 /\ missed = FALSE /\ burst = NoBurst
    /\ IdleBuild /\ call = NoCall /\ IdleCache /\ flags = {}
    /\ observers = {} /\ others = NoWidget

NextExtract == InterceptorCaptures \/ TimeoutFires \/ ProcWaitEnds

SpecExtract == InitExtract /\ [][NextExtract]_vars

---------------------------------------------------------------------------
(* Identity and discovery in v3.0 *)

RECURSIVE FirstSuccess(_)
FirstSuccess(found) ==
    IF found = <<>> THEN 0
    ELSE IF Head(found) # 0 THEN Head(found)
    ELSE FirstSuccess(Tail(found))

(* what each strategy finds, in the order of the claim: the intercepted
   catalog request, the product-page class patterns, the data attribute,
   the inline scripts, the global host configuration *)
Strategies(captured, ids) ==
    << captured, ids.browserClass, ids.storeClass, ids.dataAttr,
       ids.inlineScript, ids.ecConfig >>

(* C21: the product identity a run uses is the result of the first strategy
   that succeeds, in the order: intercepted catalog request, product-page
   CSS class pattern, data-product-id attribute, inline-script scan, global
   host configuration; if all fail the identity is null and the run ends
   without a request. *)
C21_FirstSucceedingStrategy ==
    [][ \A task \in BagToSet(runs) :
          /\ (TimeoutFiresFor(task) /\ currentProductId # 0) =>
                Proc(task.container, "fetch", currentProductId)
                    \in BagToSet(runs')
          /\ ProcWaitEndsFor(task) =>
                LET id == FirstSuccess(Strategies(currentProductId,
                                                  document.ids))
                IN  /\ currentProductId' = id
                    /\ Proc(task.container,
                            IF id = 0 THEN "done" ELSE "fetch", id)
                          \in BagToSet(runs') ]_vars

(* A run asks for the stock of the id an inline script shows, on a page
   showing another in the host configuration and none in a class or a data
   attribute, nothing having been intercepted *)
C21_Witness ==
    /\ document.ids.browserClass = 0 /\ document.ids.storeClass = 0
    /\ document.ids.dataAttr = 0
    /\ document.ids.ecConfig = PageIds.ecConfig
    /\ Proc(1, "fetch", PageIds.inlineScript) \in BagToSet(runs)
    /\ currentProductId = PageIds.inlineScript

(* C22: a run that has no identity when it starts and none after its one
   500 ms wait and one search of the page is abandoned: it issues no stock
   request and modifies no control. *)
C22_NoIdentityAbandons ==
    [][ \A task \in BagToSet(runs) :
          (/\ ProcWaitEndsFor(task)
           /\ currentProductId = 0
           /\ \A f \in DOMAIN PageIds : document.ids[f] = 0)
            => /\ Proc(task.container, "done", 0) \in BagToSet(runs')
               /\ Requests(runs') = Requests(runs)
               /\ controls' = controls ]_vars

(* The run for the container in the document is over without a request,
   no id is known, and the controls are as the host rendered them *)
C22_Witness ==
    /\ document.instance # 0
    /\ Proc(document.instance, "done", 0) \in BagToSet(runs)
    /\ currentProductId = 0
    /\ controls = RenderedPage

(* C23: each container element is queued for processing at most once,
   however many callbacks observe it, and the set of processed containers
   only grows. *)
C23_QueuedAtMostOnce ==
    [][ /\ processedContainers \subseteq processedContainers'
        /\ \A c \in 1..MaxContainers : QueuedFor(runs', c) <= 1 ]_vars

(* The run of the container in the document is over, the observer is still
   connected, and an earlier container was processed too *)
C23_Witness ==
    /\ observer
    /\ document.instance \in processedContainers
    /\ \E t \in BagToSet(runs) :
          t.container = document.instance /\ t.stage = "done"
    /\ Cardinality(processedContainers) >= 2

---------------------------------------------------------------------------
(* SpecDebug: the debug build (src/unnamed/part_005), the StockManager's
   lifecycle with each step behind a localStorage flag.

   flags is the set of steps for which localStorage holds
   SM_STEP_<step> = "true" when the page loads; the build is meant to be
   reloaded after each change of a flag, so the set stays as it is.  The
   page, the host's mutations, the observer callback and the debounce
   timeout are those of Spec: cleanup, applyStockToDom, setupObserver and
   the callback are the same functions in this build. *)

MaxDebugRuns == 1     \* most handleProductPage invocations suspended at a time

Steps == {"LISTEN", "FETCH", "DOM", "OBSERVER"}

(* localStorage.getItem(`SM_STEP_${step}`) === "true" *)
isStepEnabled(step) == step \in flags

(* handleProductPage() after the await, with no test of the DOM step *)
handleProductPageResumeNoDomStep(m, productId, result) ==
    LET v == result.value IN
    IF v.type = "number" THEN m
    ELSE IF v.type = "string"
    THEN [m EXCEPT !.stockMap = EmptyMap, !.stockMapFor = productId]
    ELSE IF Len(v.items) = 0 THEN m
    ELSE LET map == buildAvailabilityMap(v.items)
             held == [m EXCEPT !.stockMap = map, !.stockMapFor = productId]
             applied == [held EXCEPT
                           !.controls =
                              applyStockToDom(container, m.controls, map),
                           !.missed = IF container THEN @ ELSE TRUE]
         IN  IF map = EmptyMap THEN held
             ELSE IF ~isStepEnabled("OBSERVER") THEN applied
             ELSE setupObserver(applied)

(* handleProductPage() after `await fetchCombinations(productId)`, which
   never rejects: nothing without records or without a decision; then the
   DOM step, then the OBSERVER step *)
handleProductPageResume(m, productId, result) ==
    LET v == result.value IN
    IF v.type = "number" THEN m
    ELSE IF v.type = "string"
    THEN [m EXCEPT !.stockMap = EmptyMap, !.stockMapFor = productId]
    ELSE IF Len(v.items) = 0 THEN m
    ELSE LET map == buildAvailabilityMap(v.items)
             held == [m EXCEPT !.stockMap = map, !.stockMapFor = productId]
             applied == [held EXCEPT
                           !.controls =
                              applyStockToDom(container, m.controls, map),
                           !.missed = IF container THEN @ ELSE TRUE]
         IN  IF map = EmptyMap THEN held
             ELSE IF ~isStepEnabled("DOM") THEN held
             ELSE IF ~isStepEnabled("OBSERVER") THEN applied
             ELSE setupObserver(applied)

(* handlePageLoad(page), registered by initStockManager when the LISTEN
   step is enabled: cleanup, then handleProductPage(page.productId) up to
   its await - which it reaches when the FETCH step is enabled *)
DebugPageLoad ==
    /\ isStepEnabled("LISTEN")
    /\ \E pg \in Pages :
          LET fetches == pg.type = "PRODUCT" /\ isStepEnabled("FETCH") IN
          /\ fetches => BagCardinality(runs) < MaxDebugRuns
          /\ Becomes(IF pg.type = "PRODUCT"
                     THEN [cleanup(Manager) EXCEPT
                              !.currentProductId = pg.productId]
                     ELSE cleanup(Manager))
          /\ runs' = IF fetches
                     THEN runs (+) One(Run(pg.productId, "fetch"))
                     ELSE runs
    /\ burst' = IF Pending \/ Due
                THEN [burst EXCEPT !.cancelled = TRUE] ELSE burst
    /\ UNCHANGED <<buildVars, container, script, lastOp, call, cacheVars,
                   otherVars>>

(* the request of a suspended handleProductPage ends *)
DebugFetchEnds ==
    /\ \E run \in BagToSet(runs), outcome \in FetchOutcomes :
          /\ run.stage = "fetch"
          /\ LET r == awaitFetch(outcome)
             IN  IF r.threw
                 THEN /\ runs' = runs (-) One(run)
                      /\ Becomes(handleProductPageResume(
                                    Manager, run.productId, catchAll(r)))
                 ELSE /\ runs' = (runs (-) One(run))
                                    (+) One(Run(run.productId, "json"))
                      /\ Becomes(Manager)
    /\ UNCHANGED <<buildVars, container, burst, script, lastOp, call,
                   cacheVars, otherVars>>

(* the body of its response has been read, or has failed to parse *)
DebugBodyEnds ==
    /\ \E run \in BagToSet(runs) :
          /\ run.stage = "json"
          /\ \E body \in ResponseBodies(run.productId) :
                Becomes(handleProductPageResume(
                           Manager, run.productId, catchAll(awaitJson(body))))
          /\ runs' = runs (-) One(run)
    /\ UNCHANGED <<buildVars, container, burst, script, lastOp, call,
                   cacheVars, otherVars>>

InitDebug ==
    /\ script = "debug" /\ lastOp = "init"
    /\ flags \in SUBSET Steps
    /\ observers = {} /\ others = NoWidget
    /\ IdleManager /\ IdlePage /\ IdleBuild
    /\ call = NoCall /\ IdleCache
    /\ processedContainers = {} /\ document = NoPage

NextDebug ==
    \/ DebugPageLoad
    \/ DebugFetchEnds
    \/ DebugBodyEnds
    \/ MutationObserved
    \/ MutationUnobserved
    \/ Tick
    \/ DebounceFire

SpecDebug == InitDebug /\ [][NextDebug]_vars

(* C30: in the debug build a stock request is issued only if the LISTEN
   and FETCH steps are enabled, the script modifies a control only if the
   DOM step is enabled too, and the watcher is armed only if the OBSERVER
   step is enabled as well. *)
C30_StepsGateTheRun ==
    [][ /\ BagCardinality(runs') > BagCardinality(runs)
            => {"LISTEN", "FETCH"} \subseteq flags
        /\ ((DebugPageLoad \/ DebugFetchEnds \/ DebugBodyEnds \/ DebounceFire)
               /\ controls' # controls)
            => {"LISTEN", "FETCH", "DOM"} \subseteq flags
        /\ (observer' /\ ~observer) => flags = Steps ]_vars

(* With LISTEN and FETCH enabled only, the run for the current product
   holds a decision with a value out of stock, and the control of that
   value is rendered enabled with no watcher armed *)
C30_Witness ==
    /\ flags = {"LISTEN", "FETCH"}
    /\ currentProductId \in Products /\ stockMapFor = currentProductId
    /\ runs = EmptyBag
    /\ ~observer
    /\ container
    /\ \E i \in Slots :
          /\ controls[i].present /\ ~controls[i].disabled
          /\ InDecision(stockMap, i) /\ ~Available(stockMap, i)

---------------------------------------------------------------------------
(* Identity across navigation in v3.0 *)

(* C31: the stock request of the run queued for the container of the
   product view on show names that product: an id kept from an earlier
   view of another product is never used for it. *)
C31_IdentityOfTheViewShown ==
    \A t \in BagToSet(runs) :
        (t.container = document.instance /\ t.productId # 0)
            => t.productId = document.product

---------------------------------------------------------------------------
(* SpecWatch: the V1 script's change-watcher (src/src/url-localization.js
   366-438) with runs for several products under way.

   runs holds the runForProduct invocations suspended at their fetch;
   v1.productId is the product of the page-load signal handled last.
   observer says whether the module-level observer is connected, stockMap
   and stockMapFor are the map its reapply closure holds and the product
   the map was built for.  timers holds the pending animation-frame
   callbacks: each with the map its closure holds, and ref telling that it
   was scheduled by the watcher now connected (whose `scheduled` is then
   true).  The clock stands still: what a run stores stays fresh.
   v1.requests counts the page-load signals. *)

Frame(map, p) == [ref |-> TRUE, left |-> 0, map |-> map, for |-> p]

(* observeAndReapply(reapply): the observer before is disconnected - its
   pending animation-frame callback stays - and a new one observes *)
observeAndReapply(m, map, p) ==
    [m EXCEPT !.observer = TRUE, !.stockMap = map, !.stockMapFor = p,
              !.timers = [k \in 1..Len(m.timers) |-> Unref(m.timers[k])]]

(* const map = buildAvailabilityMap(items); applyDisabledMap(map);
   observeAndReapply(() => applyDisabledMap(map)) *)
applyAndWatch(m, items, p) ==
    LET map == buildSizeMap(EmptyMap, items)
    IN  observeAndReapply(
            [m EXCEPT !.controls = applyDisabledMap(m.controls, map)],
            map, p)

Signalled(p) == [NoRun EXCEPT !.stage = "signalled", !.productId = p,
                              !.requests = v1.requests]

watchFrame ==
    UNCHANGED <<buildVars, currentProductId, debounceTimer, missed, burst,
                container, script, lastOp, call, clock, otherVars>>

(* Ecwid.OnPageLoaded with a product page: runForProduct(productId) up to
   its await, or to its end when the cache holds fresh records *)
V1PageLoaded ==
    /\ \E p \in Products :
          LET entry == readEntry(sessionStore.texts, cacheKey(1, p), clock)
          IN  /\ v1.requests < MaxRequests
              /\ v1' = [Signalled(p) EXCEPT !.requests = @ + 1]
              /\ IF entry.hit
                 THEN /\ Becomes(applyAndWatch(Manager, entry.items, p))
                      /\ runs' = runs
                 ELSE /\ Becomes(Manager)
                      /\ runs' = runs (+) One(Run(p, "fetch"))
    /\ UNCHANGED <<buildVars, container, burst, script, lastOp, call, clock,
                   sessionStore, otherVars>>

(* fetchCombinations of a suspended run settles and the run goes to its
   end *)
V1RunFetchEnds ==
    /\ \E run \in BagToSet(runs), outcome \in FetchOutcomes \ {"abort"} :
         \E body \in ResponseBodies(run.productId) :
          LET response == awaitFetch(outcome)
              r == IF response.threw THEN Thrown ELSE awaitJsonV1(body)
          IN  /\ runs' = runs (-) One(run)
              /\ IF r.threw
                 THEN Becomes(Manager) /\ UNCHANGED sessionStore
                 ELSE /\ sessionStore' =
                            setItem(sessionStore, cacheKey(1, run.productId),
                                    Stringify(clock, Array(r.value.items)))
                      /\ IF Len(r.value.items) = 0
                         THEN Becomes(Manager)
                         ELSE Becomes(applyAndWatch(Manager, r.value.items,
                                                    run.productId))
    /\ UNCHANGED <<buildVars, container, burst, script, lastOp, call, clock,
                   v1, otherVars>>

(* schedule(): one animation-frame callback per watcher at a time *)
schedule(ts, map, p) ==
    IF \E k \in 1..Len(ts) : ts[k].ref THEN ts
    ELSE Append(ts, Frame(map, p))

(* the host renders the Size radios anew; the connected observer's
   callback runs *)
V1Mutation ==
    /\ Len(timers) < MaxLen
    /\ controls' \in HostPages
    /\ timers' = IF observer THEN schedule(timers, stockMap, stockMapFor)
                 ELSE timers
    /\ UNCHANGED <<observer, stockMap, stockMapFor, runs, sessionStore, v1>>
    /\ watchFrame

(* the animation frame: scheduled = false; reapply() *)
AnimationFrameAt(k) ==
    /\ k \in 1..Len(timers)
    /\ timers' = RemoveAt(timers, k)
    /\ controls' = applyDisabledMap(controls, timers[k].map)
    /\ UNCHANGED <<observer, stockMap, stockMapFor, runs, sessionStore, v1>>
    /\ watchFrame

AnimationFrame == \E k \in 1..Len(timers) : AnimationFrameAt(k)

InitWatch ==
    /\ script = "v1" /\ lastOp = "init"
    /\ clock = 0 /\ sessionStore = NoStore /\ v1 = NoRun
    /\ container = TRUE /\ controls \in HostPages
    /\ IdleBuild /\ IdleManager /\ call = NoCall /\ IdleOther

NextWatch == V1PageLoaded \/ V1RunFetchEnds \/ V1Mutation \/ AnimationFrame

SpecWatch == InitWatch /\ [][NextWatch]_vars

(* C32: the decision the V1 change-watcher re-applies is the one built for
   the product signalled last: once a run for a newer product has been
   triggered, no reapply callback holding an earlier product's map runs. *)
C32_ReapplyIsForLatestProduct ==
    [][ \A k \in 1..Len(timers) :
          AnimationFrameAt(k) => timers[k].for = v1.productId ]_vars

---------------------------------------------------------------------------
(* C33: the reconciler does not feed back on itself: a pass of
   applyStockToDom - the debounced one or the one of a resumed run - only
   takes the timeout that ran off the pending ones; its writes schedule no
   further pass. *)
C33_NoSelfFeedback ==
    [][ /\ DebounceFire =>
              \E k \in 1..Len(timers) :
                  timers[k].left = 0 /\ timers' = RemoveAt(timers, k)
        /\ BodyEnds => timers' = timers ]_vars

(* the debounced pass has run under a connected observer, a control is
   disabled by the script and no timeout is pending *)
C33_Witness ==
    /\ observer
    /\ burst.applies >= 1
    /\ timers = <<>>
    /\ \E i \in Slots : controls[i].present /\ controls[i].disabled

---------------------------------------------------------------------------
(* SpecIntercept: window.fetch as replaced by setupFetchInterceptor
   (src/custom-popmerch.js 34-57), called by the host with any arguments.

   call is the call under way: the arguments given, the arguments the
   original fetch was invoked with and how often, what the original's
   promise settled to and what the caller's promise settled to. *)

(* first arguments: a URL string with or without /catalog/product, a
   Request or URL object, none *)
Urls ==
    { [type |-> "string", catalog |-> TRUE],
      [type |-> "string", catalog |-> FALSE],
      [type |-> "object", catalog |-> TRUE],
      [type |-> "undefined", catalog |-> FALSE] }

(* request bodies: none, the texts below, an object that is no string *)
JsonTexts ==
    { "", "{", "null", "{}", "{productIdentifier:{}}",
      "{productIdentifier:{productId:0}}",
      "{productIdentifier:{productId:1}}",
      "{productIdentifier:{productId:2}}" }

RequestBodies ==
    { [type |-> "undefined"], [type |-> "formData"] }
        \cup { [type |-> "string", text |-> t] : t \in JsonTexts }

(* second arguments: none, or an object with a body *)
RequestOptions ==
    { [type |-> "undefined"] }
        \cup { [type |-> "object", body |-> b] : b \in RequestBodies }

(* options?.body || "{}" : the body, "{}" for none and for the empty text;
   JSON.parse turns what is no string into one first *)
bodyText(options) ==
    IF options.type = "undefined" THEN "{}"
    ELSE CASE options.body.type = "undefined" -> "{}"
           [] options.body.type = "formData" -> "[object FormData]"
           [] OTHER -> IF Falsy(options.body.text) THEN "{}"
                       ELSE options.body.text

(* JSON.parse(text) followed by body.productIdentifier?.productId: the id,
   Undefined for none, an exception for a text that is no JSON and for the
   property read of null *)
productIdIn(text) ==
    CASE text \in { "{", "[object FormData]", "null" } -> Thrown
      [] text \in { "{}", "{productIdentifier:{}}" } -> Value(Undefined)
      [] text = "{productIdentifier:{productId:0}}" -> Value(0)
      [] text = "{productIdentifier:{productId:1}}" -> Value(1)
      [] text = "{productIdentifier:{productId:2}}" -> Value(2)

(* The interceptor without the try block around the parse *)
interceptNoTry(args, current) ==
    LET url == args[1]
        options == args[2]
    IN  IF url.type = "string" /\ url.catalog
        THEN LET r == productIdIn(bodyText(options))
             IN  IF r.threw
                 THEN [currentProductId |-> current, threw |-> TRUE,
                       passed |-> <<>>]
                 ELSE [currentProductId |->
                          IF r.value \notin {Undefined, 0}
                          THEN r.value ELSE current,
                       threw |-> FALSE, passed |-> <<args>>]
        ELSE [currentProductId |-> current, threw |-> FALSE,
              passed |-> <<args>>]

(* the replaced window.fetch up to `return originalFetch.apply(this, args)`:
   the captured id afterwards and the argument lists the original was
   invoked with *)
intercept(args, current) ==
    LET url == args[1]
        options == args[2]
    IN  IF url.type = "string" /\ url.catalog
        THEN LET r == productIdIn(bodyText(options))
             IN  IF r.threw
                 THEN [currentProductId |-> current, threw |-> FALSE,
                       passed |-> <<args>>]
                 ELSE [currentProductId |->
                          IF r.value \notin {Undefined, 0}
                          THEN r.value ELSE current,
                       threw |-> FALSE, passed |-> <<args>>]
        ELSE [currentProductId |-> current, threw |-> FALSE,
              passed |-> <<args>>]

interceptFrame ==
    UNCHANGED <<buildVars, observer, debounceTimer, timers, stockMap,
                stockMapFor, runs, missed, burst, pageVars, script, lastOp,
                cacheVars, otherVars>>

(* the host calls window.fetch(url, options) *)
FetchCalled ==
    /\ call.stage \in {"idle", "settled"}
    /\ call.requests < MaxRequests
    /\ \E url \in Urls, options \in RequestOptions :
          LET args == <<url, options>>
              r == intercept(args, currentProductId)
          IN  /\ currentProductId' = r.currentProductId
              /\ call' = [stage |-> IF r.threw THEN "settled" ELSE "pending",
                          requests |-> call.requests + 1,
                          args |-> args, passed |-> r.passed,
                          outcome |-> "none",
                          result |-> IF r.threw THEN "rejected" ELSE "none"]
    /\ interceptFrame

(* the promise of the original fetch settles, and with it the promise the
   async wrapper returned *)
OriginalSettles ==
    /\ call.stage = "pending"
    /\ \E outcome \in {"fulfilled", "rejected"} :
          call' = [call EXCEPT !.stage = "settled", !.outcome = outcome,
                               !.result = outcome]
    /\ UNCHANGED currentProductId
    /\ interceptFrame

InitIntercept ==
    /\ script = "v3" /\ lastOp = "init"
    /\ call = [stage |-> "idle", requests |-> 0, args |-> <<>>,
               passed |-> <<>>, outcome |-> "none", result |-> "none"]
    /\ currentProductId \in Products \cup {0}
    /\ IdleBuild /\ IdlePage /\ IdleCache /\ IdleOther
    /\ observer = FALSE /\ debounceTimer = FALSE /\ timers = <<>>
    /\ stockMap = EmptyMap /\ stockMapFor = 0 /\ runs = EmptyBag
    /\ missed = FALSE /\ burst = NoBurst

NextIntercept == FetchCalled \/ OriginalSettles

SpecIntercept == InitIntercept /\ [][NextIntercept]_vars

(* the id a /catalog/product request with a string URL carries in its
   body, 0 for any other call *)
CarriedId(args) ==
    IF args[1].type = "string" /\ args[1].catalog
       /\ args[2].type = "object" /\ args[2].body.type = "string"
    THEN CASE args[2].body.text = "{productIdentifier:{productId:1}}" -> 1
           [] args[2].body.text = "{productIdentifier:{productId:2}}" -> 2
           [] OTHER -> 0
    ELSE 0

(* C34: the fetch interceptor is transparent: whatever the URL and the
   body, the original fetch is invoked exactly once with the arguments
   given and the caller's promise settles as the original's does; the
   captured id changes only with a /catalog/product URL whose parsed body
   carries productIdentifier.productId, and then to that id. *)
C34_InterceptorTransparent ==
    [][ /\ call'.stage # "idle" => call'.passed = <<call'.args>>
        /\ call'.stage = "settled" =>
              call'.outcome # "none" /\ call'.result = call'.outcome
        /\ currentProductId' # currentProductId =>
              /\ CarriedId(call'.args) # 0
              /\ currentProductId' = CarriedId(call'.args) ]_vars

(* a /catalog/product call whose body is no JSON, and one whose body
   parses to null, have gone through to the original and settled *)
C34_Witness ==
    /\ call.stage = "settled"
    /\ call.args[1].type = "string" /\ call.args[1].catalog
    /\ call.args[2].type = "object"
    /\ \/ call.args[2].body.type = "formData"
       \/ /\ call.args[2].body.type = "string"
          /\ call.args[2].body.text \in {"{", "null"}
    /\ call.outcome = "rejected"

---------------------------------------------------------------------------
(* SpecBundle: the bundled StockManager V2 (src/unnamed/part_001 53-219;
   the same class in src/custom-popmerch.js 780-961) under page-load
   signals and fetch completions in any order.

   observers is the set of MutationObservers the manager created that are
   connected: each with the product its map was built for and `current`
   telling that this.observer refers to it.  observer says that
   this.observer is not null; runs holds the checkStock invocations
   suspended at their fetch. *)

Observer(id, p) == [id |-> id, for |-> p, current |-> TRUE]

(* disconnectObserver(): this.observer.disconnect(); this.observer = null *)
disconnectObserver(os) == { o \in os : ~o.current }

(* setupObserver(availabilityMap): this.observer = new MutationObserver;
   the observer referred to before stays connected *)
setupObserverV2(os, p) ==
    { [o EXCEPT !.current = FALSE] : o \in os }
        \cup { Observer(Cardinality(os) + 1, p) }

bundleFrame ==
    UNCHANGED <<buildVars, debounceTimer, timers, missed, burst, container,
                script, lastOp, call, cacheVars, processedContainers,
                document, flags, others>>

(* handlePageLoad(page) *)
BundlePageLoad ==
    /\ \E page \in Pages :
          /\ page.type = "PRODUCT" =>
                BagCardinality(runs) + Cardinality(observers) < MaxRuns
          /\ currentProductId' =
                IF page.type = "PRODUCT" THEN page.productId ELSE 0
          /\ runs' = IF page.type = "PRODUCT"
                     THEN runs (+) One(Run(page.productId, "fetch"))
                     ELSE runs
    /\ observers' = disconnectObserver(observers)
    /\ observer' = FALSE
    /\ UNCHANGED <<stockMap, stockMapFor, controls>>
    /\ bundleFrame

(* checkStock() after `await this.fetchCombinations(productId)` *)
BundleFetchEnds ==
    /\ \E run \in BagToSet(runs), outcome \in FetchOutcomes :
         \E body \in ResponseBodies(run.productId) :
          LET response == awaitFetch(outcome)
              result == catchAll(IF response.threw THEN Thrown
                                 ELSE awaitJson(body))
              v == result.value
              map == IF v.type = "array" THEN buildAvailabilityMap(v.items)
                     ELSE EmptyMap
          IN  /\ runs' = runs (-) One(run)
              /\ IF map = EmptyMap
                 THEN UNCHANGED <<observer, observers, stockMap, stockMapFor,
                                  controls>>
                 ELSE /\ controls' = applyStockToDom(container, controls, map)
                      /\ stockMap' = map
                      /\ stockMapFor' = run.productId
                      /\ observers' = setupObserverV2(observers,
                                                      run.productId)
                      /\ observer' = TRUE
    /\ UNCHANGED currentProductId
    /\ bundleFrame

InitBundle ==
    /\ script = "v2" /\ lastOp = "init"
    /\ container = TRUE /\ controls \in HostPages
    /\ IdleBuild /\ IdleManager /\ call = NoCall /\ IdleCache /\ IdleOther

NextBundle == BundlePageLoad \/ BundleFetchEnds

SpecBundle == InitBundle /\ [][NextBundle]_vars

(* C35: in the bundled StockManager V2 at most one observer the manager
   created is connected, and every connected one is the one this.observer
   refers to, which the next page-load signal disconnects: none is
   leaked. *)
C35_OneObserverNoneLeaked ==
    /\ Cardinality(observers) <= 1
    /\ \A o \in observers : o.current

---------------------------------------------------------------------------
(* C36: in the refactored StockManager at most one debounce timeout is
   pending at any time, and one is pending only while the observer is
   connected: cleanup leaves none, so that no debounced applyStockToDom
   runs between a page-load signal and the next setupObserver. *)
C36_OneTimerNoneAfterCleanup ==
    /\ Len(timers) <= 1
    /\ ~observer => timers = <<>>

(* a page-load signal arrived while a debounce timeout was pending, and
   none is pending now *)
C36_Witness ==
    /\ burst.cancelled
    /\ burst.callbacks >= 1
    /\ ~observer
    /\ timers = <<>>

---------------------------------------------------------------------------
(* SpecInit: the V1 script's start (src/src/url-localization.js 288-301,
   425-438): waitForEcwidReady polls the host API, then init goes on.

   call is the init function: its stage, the host API as it is now, the
   product id in the page's URL (0 for none), the time since the poll
   started, whether the poll ran into its timeout, whether init started
   runForProduct past its storeId test, registered its page-load handler,
   or ended in an exception. *)

POLL_STEP_MS    == 50
POLL_TIMEOUT_MS == 10000

(* the host API, from nothing to complete: window.Ecwid, its
   OnPageLoaded.add, its getOwnerId, the owner id it returns *)
HostApi(e, a, g, id) ==
    [ecwid |-> e, add |-> a, getOwnerId |-> g, ownerId |-> id]

HostApis ==
    { HostApi(FALSE, FALSE, FALSE, 0),
      HostApi(TRUE, FALSE, FALSE, 0),
      HostApi(TRUE, TRUE, FALSE, 0),
      HostApi(TRUE, FALSE, TRUE, 1),
      HostApi(TRUE, TRUE, TRUE, 0),
      HostApi(TRUE, TRUE, TRUE, 1) }

(* the host's script goes on loading: what is there stays *)
Later(h) ==
    { g \in HostApis :
        /\ h.ecwid => g.ecwid
        /\ h.add => g.add
        /\ h.getOwnerId => g.getOwnerId
        /\ h.ownerId # 0 => g.ownerId = h.ownerId } \ {h}

(* getStoreIdSafe(): the owner id if it is a positive number, else null *)
getStoreIdSafe(h) ==
    IF h.ecwid /\ h.getOwnerId /\ h.ownerId > 0 THEN h.ownerId ELSE 0

(* the `ok` of waitForEcwidReady *)
EcwidReady(h) == h.ecwid /\ h.add /\ h.getOwnerId /\ getStoreIdSafe(h) # 0

(* init after `await waitForEcwidReady()`: runForProduct(pidFromUrl) up to
   its storeId test, then window.Ecwid.OnPageLoaded.add(...), a TypeError
   where window.Ecwid or its OnPageLoaded.add is missing *)
initResume(c, timedOut) ==
    [c EXCEPT !.stage = "done",
              !.timedOut = timedOut,
              !.started = c.pidFromUrl # 0 /\ getStoreIdSafe(c.host) # 0,
              !.registered = c.host.ecwid /\ c.host.add,
              !.threw = ~(c.host.ecwid /\ c.host.add)]

initFrame ==
    UNCHANGED <<buildVars, mgrVars, pageVars, script, lastOp, cacheVars,
                otherVars>>

(* one round of the loop of waitForEcwidReady *)
Poll ==
    /\ call.stage = "polling"
    /\ call' = IF ~(call.elapsed < POLL_TIMEOUT_MS)
               THEN initResume(call, TRUE)
               ELSE IF EcwidReady(call.host)
               THEN initResume(call, FALSE)
               ELSE [call EXCEPT !.elapsed = @ + POLL_STEP_MS]
    /\ initFrame

(* the host API becomes more available while the script sleeps *)
HostLoads ==
    /\ call.stage = "polling"
    /\ \E h \in Later(call.host) : call' = [call EXCEPT !.host = h]
    /\ initFrame

InitInit ==
    /\ script = "v1" /\ lastOp = "init"
    /\ call \in { [stage |-> "polling", host |-> h, pidFromUrl |-> p,
                   elapsed |-> 0, timedOut |-> FALSE, started |-> FALSE,
                   registered |-> FALSE, threw |-> FALSE] :
                  h \in HostApis, p \in Products \cup {0} }
    /\ IdleBuild /\ IdleManager /\ IdlePage /\ IdleCache /\ IdleOther

NextInit == Poll \/ HostLoads

SpecInit == InitInit /\ [][NextInit]_vars

(* C37: when the poll of waitForEcwidReady ran into its timeout, init ends
   without an exception and without a run that touches the page. *)
C37_TimeoutEndsQuietly ==
    (call.stage = "done" /\ call.timedOut) =>
        (~call.threw /\ ~call.started)

---------------------------------------------------------------------------
(* SpecWidgets: the module version of v3.0 (src/unnamed/part_000 128-229)
   on a page with two product widgets that render the same options.

   controls are the inputs of the container processProductOptions was
   called for, others the inputs of the other widget.  others.ownForm says
   whether the host puts each widget's radios into a form of its own: a
   radio's group is made of the radios of its name with its form owner,
   and of all radios of its name in the document that have none. *)

WidgetRenderings ==
    { [i \in Slots |-> Rendered(Absent, FALSE, i = k, FALSE)] :
        k \in Slots \cup {0} }

(* the names of the radio groups in which applyStockStatus clicked *)
ClickedNames(before, after) ==
    { Layout[k].name : k \in { i \in Slots : after[i].checked
                                             /\ ~before[i].checked } }

(* what the clicks do to the radios of the other widget: those in the
   group of a clicked radio lose their checkedness *)
uncheckedByClick(w, names) ==
    IF w.ownForm THEN w
    ELSE [w EXCEPT !.controls =
            [i \in Slots |->
                IF w.controls[i].present /\ Layout[i].name \in names
                THEN [w.controls[i] EXCEPT !.checked = FALSE]
                ELSE w.controls[i]]]

(* applyStockStatus(availabilityMap, container): the inputs are those of
   container.querySelectorAll *)
ApplyInContainer ==
    /\ container
    /\ LET after == applyStockStatus(controls, stockMap)
       IN  /\ controls' = after
           /\ others' = uncheckedByClick(others,
                                         ClickedNames(controls, after))
    /\ lastOp' = Applied
    /\ UNCHANGED <<buildVars, mgrVars, container, script, call, cacheVars,
                   processedContainers, document, flags, observers>>

(* the host renders an input of the container anew *)
WidgetHostChange ==
    /\ HostRendersInput
    /\ lastOp' = "host"
    /\ UNCHANGED <<buildVars, mgrVars, script, call, cacheVars, otherVars>>

InitWidgets ==
    /\ script = "v3" /\ lastOp = "init"
    /\ stockMap \in Decisions
    /\ container = TRUE /\ controls \in WidgetRenderings
    /\ others \in { [controls |-> c, ownForm |-> f] :
                      c \in WidgetRenderings, f \in BOOLEAN }
    /\ processedContainers = {} /\ document = NoPage /\ flags = {}
    /\ observers = {}
    /\ IdleBuild /\ call = NoCall /\ IdleCache
    /\ currentProductId = 0 /\ observer = FALSE /\ debounceTimer = FALSE
    /\ timers = <<>> /\ stockMapFor = 0 /\ runs = EmptyBag
    /\ missed = FALSE /\ burst = NoBurst

NextWidgets == ApplyInContainer \/ WidgetHostChange

SpecWidgets == InitWidgets /\ [][NextWidgets]_vars

(* C38: applying the decision for a discovered container changes only
   controls of that container: the controls of the page's other product
   widget keep their state and their selection. *)
C38_OtherWidgetUntouched == [][others' = others]_vars

---------------------------------------------------------------------------
(* SpecClick: the click handler of the URL localization module
   (src/src/url-localization.js 14-259).

   Paths and hrefs are sequences of tokens: "/", a two-letter locale, a
   longer word, a file extension, a query, the start of an absolute URL or
   of a special link.  flags is the set of URL_STEP_<step> flags that
   localStorage holds as "true".  call is the click: the page's pathname,
   the anchor clicked (its href attribute, its hostname property, its
   data-no-localize attribute), and after the handler whether the default
   was prevented and where window.location.href was sent. *)

UrlSteps == {"DETECT_LOCALE", "CLICK_HANDLER"}

Locales == {"de", "fr"}

NoAttr == <<"(none)">>

StartsWith(s, p) == Len(s) >= Len(p) /\ SubSeq(s, 1, Len(p)) = p

Pathnames ==
    { <<"/">>, <<"/", "de">>, <<"/", "de", "/", "shop">>,
      <<"/", "shop">>, <<"/", "fr", "/">> }

(* anchors: href attribute and the hostname the browser resolves it to
   ("" for a link without host, "here" for location.hostname) *)
Anchor(href, hostname) == [href |-> href, hostname |-> hostname]

Anchors ==
    { Anchor(NoAttr, ""),
      Anchor(<<>>, "here"),
      Anchor(<<"/">>, "here"),
      Anchor(<<"/", "shop">>, "here"),
      Anchor(<<"shop">>, "here"),
      Anchor(<<"/", "de", "/", "shop">>, "here"),
      Anchor(<<"/", "de">>, "here"),
      Anchor(<<"/", "fr", "/", "shop">>, "here"),
      Anchor(<<"/", "shop", ".pdf">>, "here"),
      Anchor(<<"#">>, "here"),
      Anchor(<<"mailto:">>, ""),
      Anchor(<<"http", "popmerch.com", "/", "shop">>, "popmerch.com"),
      Anchor(<<"//", "cdn.example", "/", "shop">>, "cdn.example") }

(* values of link.dataset.noLocalize: no attribute, data-no-localize
   without a value, data-no-localize="true" *)
NoLocalizeValues == { NoAttr, <<>>, <<"true">> }

(* isStepEnabled(step) of this module *)
isUrlStepEnabled(step) == step \in flags

(* localeRegex /^\/([a-z]{2})(\/|$)/ on the pathname: the locale, NoAttr
   for none *)
getCurrentLocale(pathname) ==
    IF ~isUrlStepEnabled("DETECT_LOCALE") THEN NoAttr
    ELSE IF /\ Len(pathname) >= 2
            /\ pathname[1] = "/"
            /\ pathname[2] \in Locales
            /\ (Len(pathname) = 2 \/ pathname[3] = "/")
         THEN <<pathname[2]>>
         ELSE NoAttr

(* ignoreRegex: javascript:, mailto:, tel:, #, http, file:, or a path
   ending in a file extension *)
Ignored(href) ==
    \/ href[1] \in {"mailto:", "#", "http"}
    \/ href[1] = "/" /\ href[Len(href)] = ".pdf"

(* shouldLocalizeLink(link) *)
shouldLocalizeLink(link, pathname) ==
    LET href == link.href
        locale == getCurrentLocale(pathname)
    IN  /\ href # NoAttr /\ href # <<>>
        /\ link.hostname \in {"here", "popmerch.com", "webshop.popmerch.com", ""}
        /\ ~Ignored(href)
        /\ locale # NoAttr
        /\ ~(StartsWith(href, <<"/">> \o locale \o <<"/">>)
             \/ href = <<"/">> \o locale)

(* buildLocalizedUrl(originalHref, locale) *)
buildLocalizedUrl(originalHref, locale) ==
    IF originalHref = <<"/">> \/ originalHref = <<>>
    THEN <<"/">> \o locale
    ELSE LET path == IF originalHref[1] = "/" THEN originalHref
                     ELSE <<"/">> \o originalHref
         IN  <<"/">> \o locale \o path

(* handleLinkClick(event) for a click inside the anchor: whether the
   default was prevented and where the page was sent *)
handleLinkClick(link, noLocalize, pathname) ==
    LET stay == [prevented |-> FALSE, location |-> NoAttr]
    IN  IF ~isUrlStepEnabled("CLICK_HANDLER") THEN stay
        ELSE IF noLocalize \notin {NoAttr, <<>>} THEN stay
        ELSE IF ~shouldLocalizeLink(link, pathname) THEN stay
        ELSE LET locale == getCurrentLocale(pathname)
             IN  IF locale = NoAttr THEN stay
                 ELSE [prevented |-> TRUE,
                       location |-> buildLocalizedUrl(link.href, locale)]

clickFrame ==
    UNCHANGED <<buildVars, mgrVars, pageVars, script, lastOp, cacheVars,
                otherVars>>

(* the user clicks an anchor of the page *)
LinkClicked ==
    /\ call.stage = "page"
    /\ \E link \in Anchors, noLocalize \in NoLocalizeValues :
          LET r == handleLinkClick(link, noLocalize, call.pathname)
          IN  call' = [call EXCEPT !.stage = "clicked", !.link = link,
                                   !.noLocalize = noLocalize,
                                   !.prevented = r.prevented,
                                   !.location = r.location]
    /\ clickFrame

InitClick ==
    /\ script = "urlLocalization" /\ lastOp = "init"
    /\ call \in { [stage |-> "page", pathname |-> p, link |-> Anchor(NoAttr, ""),
                   noLocalize |-> NoAttr, prevented |-> FALSE,
                   location |-> NoAttr] : p \in Pathnames }
    /\ processedContainers = {} /\ document = NoPage
    /\ flags \in SUBSET UrlSteps
    /\ observers = {} /\ others = NoWidget
    /\ IdleBuild /\ IdleManager /\ IdlePage /\ IdleCache

NextClick == LinkClicked

SpecClick == InitClick /\ [][NextClick]_vars

(* the locale the page path starts with, NoAttr for none *)
PathLocale(pathname) ==
    IF Len(pathname) >= 2 /\ pathname[1] = "/" /\ pathname[2] \in Locales
       /\ (Len(pathname) = 2 \/ pathname[3] = "/")
    THEN <<pathname[2]>> ELSE NoAttr

(* the target carries the locale prefix exactly once *)
PrefixedOnce(url, locale) ==
    /\ StartsWith(url, <<"/">> \o locale)
    /\ ~StartsWith(SubSeq(url, 3, Len(url)), <<"/">> \o locale)

(* C39: a click is redirected only when both steps are enabled, the page
   path starts with a locale, and the link is internal, not of an ignored
   kind, not marked data-no-localize and not yet prefixed with the
   locale; the target then carries the prefix exactly once; any other
   click keeps its default behaviour. *)
C39_RedirectOnlyWhenLocalizable ==
    (call.stage = "clicked" /\ call.prevented) =>
        /\ flags = UrlSteps
        /\ PathLocale(call.pathname) # NoAttr
        /\ call.link.href # NoAttr
        /\ call.link.hostname \in {"here", "popmerch.com", "webshop.popmerch.com", ""}
        /\ ~Ignored(call.link.href)
        /\ call.noLocalize = NoAttr
        /\ ~StartsWith(call.link.href, <<"/">> \o PathLocale(call.pathname))
        /\ PrefixedOnce(call.location, PathLocale(call.pathname))

====
